---- MODULE Spec2Model ----
(***************************************************************************)
(* OLXRadar: the scraping-and-ingestion engine.                            *)
(*                                                                         *)
(*   DatabaseManager      src/src/database_manager.py                      *)
(*   OlxScraper           src/src/scrapers/olx_scraper.py                  *)
(*   VintedScraper        src/src/scrapers/vinted_scraper.py               *)
(*   ScraperOrchestrator  src/src/scraper_manager.py                       *)
(*   run_platform_scraper src/src/main.py                                  *)
(*   the earlier main     src/main.py, src/scraper_manager.py              *)
(*                                                                         *)
(* Python dicts are functions whose domain is the set of keys present.     *)
(* Text values are strings ("" is the empty, falsy text), image lists are  *)
(* sequences of strings.  None is the string NoneVal where a text may be   *)
(* None, and the empty function Null where a dict may be None.             *)
(***************************************************************************)
EXTENDS Integers, Sequences, FiniteSets, Bags, TLC

VARIABLES
    platform,      \* name of the one scraper of this worker: "olx" | "vinted"
    scraperCfg,    \* VintedScraper.page_size / max_pages as set by __init__
    ads,           \* the rows of table ads, a bag of urls
    pc,            \* position of the worker in its cycle
    cycle,         \* number of cycles started so far
    storeAtStart,  \* urls stored when the current cycle started
    options,       \* options of the current target (dict of raw strings)
    site,          \* the listing source, when it is a fixed result list
    page,          \* current_page / page of collect_listings
    listings,      \* listings / collected of collect_listings
    fetchLog,      \* one entry per page fetch of the current walk
    jobs,          \* new_listing_jobs of collect_new_ads
    batch,         \* new_ads, the batch returned by collect_new_ads
    handed,        \* url -> cycles in which it was handed to the Messenger
    sendFailed,    \* urls whose notification raised in the current cycle
    progress,      \* how far the notification loop and the database update are
    call,          \* the call under study of a single method
    ret,           \* what that call returned
    threads,       \* thread or process -> its position and locals
    shared         \* what the threads or processes share

vars == <<platform, scraperCfg, ads, pc, cycle, storeAtStart, options, site,
          page, listings, fetchLog, jobs, batch, handed, sendFailed, progress, call, ret,
          threads, shared>>

\* no record of the batch handed over yet, no url of it passed to add_url
NoProgress == [notified |-> 0, stored |-> {}]

\* the variables of the concurrent parts
procVars == <<threads, shared>>

cycleVars == <<platform, scraperCfg, pc, cycle, storeAtStart, options, site,
               page, listings, fetchLog, jobs, batch, handed, sendFailed, progress>>

----------------------------------------------------------------------------
(* Bounds of the model *)

\* longest page (number of listing elements) an arbitrary source returns
MaxItems == 2
\* page fetches of one walk after which the model stops following it
MaxWalk == 3
\* cycles of the worker loop the model follows
MaxCycles == 2
\* longest result list of a fixed site
MaxResults == 4
\* calls of a DatabaseManager method the model follows
MaxCalls == 3
\* targets of one collect_new_ads call
MaxTargets == 3
\* worker threads of one thread pool
MaxWorkers == 2
\* store calls of one worker process
MaxOps == 2
\* targets of one collect_new_ads call over several scrapers
MaxResolved == 2
\* jobs of one _fetch_ad_details call
MaxJobs == 2
\* parameters of the query of a target url
MaxParams == 3
\* img tags one selector matches
MaxImages == 2
\* selectors of one _extract_text call
MaxSelectors == 3

----------------------------------------------------------------------------
(* Values *)

NoneVal == "None"

\* listing urls; UrlOrder is the order in which a fixed site lists them
UrlNames == <<"u1", "u2", "u3", "u4", "u5", "u6">>
UrlOrder == SubSeq(UrlNames, 1, MaxResults)
URLS == {UrlOrder[i] : i \in 1..Len(UrlOrder)}
\* the urls an arbitrary source draws its pages from
SomeUrls == {"u1", "u2"}

\* a listing element that yields no candidate: no usable link, an external or
\* irrelevant link (olx), a payload without url or required field (vinted)
Skipped == "skip"

Variants == {"olx", "vinted"}

Range(s) == {s[i] : i \in 1..Len(s)}

Min(a, b) == IF a < b THEN a ELSE b
Max(a, b) == IF a > b THEN a ELSE b

\* sequences over S of length at most n
SeqUpTo(S, n) == UNION {[1..k -> S] : k \in 0..n}

----------------------------------------------------------------------------
(* DatabaseManager *)

\* a store that never finds a url
url_exists_never(rows, url) == FALSE

\* url_exists: SELECT 1 FROM ads WHERE url = ? LIMIT 1
url_exists(rows, url) == BagIn(url, rows)

\* a store whose add_url is a plain INSERT: the UNIQUE constraint makes it
\* raise on a url that is already there
add_url_plain_insert(rows, url) ==
    IF BagIn(url, rows)
    THEN [rows |-> rows, raised |-> TRUE]
    ELSE [rows |-> rows (+) SetToBag({url}), raised |-> FALSE]

\* a store whose table has no UNIQUE constraint on url
add_url_no_unique(rows, url) ==
    [rows |-> rows (+) SetToBag({url}), raised |-> FALSE]

\* a store whose add_url is INSERT OR REPLACE into a table of one row: the
\* new url takes the place of what was stored
add_url_replacing(rows, url) ==
    [rows |-> SetToBag({url}), raised |-> FALSE]

\* add_url: INSERT OR IGNORE INTO ads (url) VALUES (?), url being UNIQUE.
\* Yields the rows and whether the statement raised.
add_url(rows, url) ==
    IF BagIn(url, rows)
    THEN [rows |-> rows, raised |-> FALSE]
    ELSE [rows |-> rows (+) SetToBag({url}), raised |-> FALSE]

\* the urls for which url_exists is true
StoredUrls(rows) == BagToSet(rows)

----------------------------------------------------------------------------
(* Payload dicts *)

\* None where a dict is expected; no method below returns a real empty dict
Null == <<>>
IsNull(d) == DOMAIN d = {}

Restrict(d, keys) == [k \in keys |-> d[k]]

TextKeys == {"title", "price", "description", "seller"}
CoreFields == {"title", "description", "price"}

\* Python truth of a payload value: a non-empty list for images, a text that
\* is neither None nor empty otherwise
IsTruthy(key, value) ==
    IF key = "images" THEN value # <<>> ELSE value # "" /\ value # NoneVal

\* dict.get(key) is truthy
Has(d, key) == key \in DOMAIN d /\ IsTruthy(key, d[key])

\* a merge in which every key of override replaces the key of base
merge_payloads_update(base, override) ==
    [k \in DOMAIN base \cup DOMAIN override |->
        IF k \in DOMAIN override THEN override[k] ELSE base[k]]

\* VintedScraper._merge_payloads
merge_payloads(base, override) ==
    LET taken == {k \in DOMAIN override : IsTruthy(k, override[k])}
    IN  [k \in DOMAIN base \cup taken |->
            IF k \in taken THEN override[k] ELSE base[k]]

\* VintedScraper._payload_has_core_fields
payload_has_core_fields(payload) == \A f \in CoreFields : Has(payload, f)

----------------------------------------------------------------------------
(* Field extraction *)

\* what one selector finds in a document: no node, or the stripped text of
\* its first node ("" when the node holds no text)
NoNode == "<no node>"

\* a search that ends at the first selector that matches a node
extract_text_first_match(found) ==
    IF found = <<>> THEN NoneVal
    ELSE IF \A i \in 1..Len(found) : found[i] = NoNode THEN NoneVal
    ELSE LET first == CHOOSE i \in 1..Len(found) :
                          /\ found[i] # NoNode
                          /\ \A j \in 1..(i - 1) : found[j] = NoNode
         IN  IF found[first] # "" THEN found[first] ELSE NoneVal

\* OlxScraper._extract_text over the outcomes of its selectors, in order
RECURSIVE extract_text(_)
extract_text(found) ==
    IF found = <<>> THEN NoneVal
    ELSE IF Head(found) # NoNode /\ Head(found) # "" THEN Head(found)
    ELSE extract_text(Tail(found))

\* OlxScraper.get_ad_data on the document _parse_content returned
\* (content.ok is FALSE when it returned None)
olx_get_ad_data(ad_url, content) ==
    IF ~content.ok THEN Null
    ELSE LET title == extract_text(content.title)
             price == extract_text(content.price)
             description == extract_text(content.description)
             seller == extract_text(content.seller)
             ad_data == [title |-> title, price |-> price, url |-> ad_url,
                         description |-> description, images |-> content.images]
         IN  IF NoneVal \in {title, price, description} THEN Null
             ELSE IF IsTruthy("seller", seller)
                  THEN ad_data @@ ("seller" :> seller)
                  ELSE ad_data

\* VintedScraper._scrape_item_from_html on the soup _fetch_item_soup returned
\* (soup.ok is FALSE when it returned None); the soup holds what the
\* _extract_html_* methods find: a text or None per field, an image list
scrape_item_from_html(item_url, soup) ==
    IF ~soup.ok THEN Null
    ELSE LET found == {k \in TextKeys : IsTruthy(k, soup[k])}
         IN  IF found = {} /\ soup.images = <<>> THEN Null
             ELSE [k \in {"url", "images"} \cup found |->
                     IF k = "url" THEN item_url ELSE soup[k]]

\* VintedScraper._build_ad_from_item on a search item.  The item carries its
\* url, title, description and price as texts (None when it has none), the
\* image urls of its photos and the login of its seller.
build_ad_from_item(item) ==
    IF ~item.ok THEN Null
    ELSE IF ~IsTruthy("url", item.url) THEN Null
    ELSE IF \E f \in CoreFields : ~IsTruthy(f, item[f]) THEN Null
    ELSE LET ad_data == [title |-> item.title, price |-> item.price,
                         url |-> item.url, description |-> item.description,
                         images |-> item.images]
         IN  IF IsTruthy("seller", item.seller)
             THEN ad_data @@ ("seller" :> item.seller)
             ELSE ad_data

\* VintedScraper._fetch_item_via_api: found is what client.items.search
\* returned (<<>> when it raised or found nothing)
fetch_item_via_api(found) ==
    IF found = <<>> THEN Null ELSE build_ad_from_item(found[1])

\* VintedScraper.get_ad_data
vinted_get_ad_data(ad_url, soup, found) ==
    LET html_data == scrape_item_from_html(ad_url, soup)
        api_data == fetch_item_via_api(found)
    IN  IF ~IsNull(html_data) /\ payload_has_core_fields(html_data)
        THEN html_data
        ELSE IF IsNull(api_data) /\ ~IsNull(html_data) THEN html_data
        ELSE IF ~IsNull(api_data) /\ ~IsNull(html_data)
             THEN merge_payloads(api_data, html_data)
        ELSE api_data

----------------------------------------------------------------------------
(* Target options and scraper configuration *)

VintedName == "vinted"
OlxName == "olx"

\* VintedScraper.max_allowed_page_size, VintedScraper.max_allowed_pages
max_allowed_page_size == 20
max_allowed_pages == 10
\* defaults of VintedScraper.__init__
default_page_size == 20
default_max_pages == 10

\* int(raw_value): the decimal strings the model uses; any other raw value
\* raises ValueError
IntStrings == ("0" :> 0) @@ ("1" :> 1) @@ ("2" :> 2) @@ ("3" :> 3) @@ ("25" :> 25)

\* VintedScraper._coerce_int_option
coerce_int_option(opts, key, default, min_value, max_value) ==
    IF DOMAIN opts = {} THEN default
    ELSE IF key \notin DOMAIN opts THEN default
    ELSE IF opts[key] \notin DOMAIN IntStrings THEN default
    ELSE Max(min_value, Min(IntStrings[opts[key]], max_value))

\* VintedScraper.__init__: self.page_size, self.max_pages
VintedScraperInit(page_size, max_pages) ==
    [page_size |-> Min(Max(1, page_size), max_allowed_page_size),
     max_pages |-> Min(Max(1, max_pages), max_allowed_pages)]

\* page_size and max_pages of VintedScraper.collect_listings
vinted_page_size(cfg, opts) ==
    coerce_int_option(opts, "page_size", cfg.page_size, 1, max_allowed_page_size)
vinted_max_pages(cfg, opts) ==
    coerce_int_option(opts, "max_pages", cfg.max_pages, 1, max_allowed_pages)

----------------------------------------------------------------------------
(* One page of collect_listings *)

\* ListingCandidate(url, data); data is Null for ListingCandidate(url=...)
ListingCandidate(url, data) == [url |-> url, data |-> data]

\* the search item behind a listing element of a vinted page: a complete
\* item at url el, or an item that lacks its title
VintedItem(el) ==
    IF el = Skipped
    THEN [ok |-> TRUE, url |-> "u0", title |-> NoneVal, description |-> "D",
          price |-> "9", images |-> <<>>, seller |-> NoneVal]
    ELSE [ok |-> TRUE, url |-> el, title |-> "A", description |-> "D",
          price |-> "9", images |-> <<"api.jpg">>, seller |-> NoneVal]

\* the item page of a listing as _fetch_item_soup and the _extract_html_*
\* methods see it: not fetched, a page with a title only, a page with
\* everything but images and seller
SnapKinds == {"none", "title", "most"}
ItemSoup(kind) ==
    IF kind = "none" THEN [ok |-> FALSE]
    ELSE IF kind = "title"
    THEN [ok |-> TRUE, title |-> "H", price |-> NoneVal, description |-> NoneVal,
          seller |-> NoneVal, images |-> <<>>]
    ELSE [ok |-> TRUE, title |-> "H", price |-> "8", description |-> "HD",
          seller |-> NoneVal, images |-> <<>>]

\* is_known(url) on an element that passed the link checks
ElementKnown(rows, el) == el # Skipped /\ url_exists(rows, el)

\* a page scan that never marks the page
page_contains_known_never(rows, items) == FALSE

\* page_contains_known after the for loop over the page
page_contains_known(rows, items) ==
    \E i \in 1..Len(items) : ElementKnown(rows, items[i])

\* a page scan that ends at the first known url
RECURSIVE olx_page_candidates_until_known(_, _)
olx_page_candidates_until_known(rows, items) ==
    IF items = <<>> THEN <<>>
    ELSE IF Head(items) = Skipped
         THEN olx_page_candidates_until_known(rows, Tail(items))
         ELSE IF url_exists(rows, Head(items)) THEN <<>>
         ELSE <<ListingCandidate(Head(items), Null)>>
                  \o olx_page_candidates_until_known(rows, Tail(items))

\* the candidates OlxScraper.collect_listings appends for one page
RECURSIVE olx_page_candidates(_, _)
olx_page_candidates(rows, items) ==
    IF items = <<>> THEN <<>>
    ELSE IF Head(items) = Skipped \/ url_exists(rows, Head(items))
         THEN olx_page_candidates(rows, Tail(items))
         ELSE <<ListingCandidate(Head(items), Null)>>
                  \o olx_page_candidates(rows, Tail(items))

\* the candidates VintedScraper.collect_listings appends for one page
RECURSIVE vinted_page_candidates(_, _, _)
vinted_page_candidates(rows, items, snap) ==
    IF items = <<>> THEN <<>>
    ELSE LET ad_data == build_ad_from_item(VintedItem(Head(items)))
             rest == vinted_page_candidates(rows, Tail(items), snap)
         IN  IF IsNull(ad_data) THEN rest
             ELSE IF url_exists(rows, ad_data.url) THEN rest
             ELSE LET html_snapshot ==
                          scrape_item_from_html(ad_data.url, ItemSoup(snap))
                      enriched == IF IsNull(html_snapshot) THEN ad_data
                                  ELSE merge_payloads(ad_data, html_snapshot)
                  IN  <<ListingCandidate(enriched.url, enriched)>> \o rest

\* the text of a pagination item: the decimal numbers of the model; int()
\* raises ValueError on any other text
PagerNumbers ==
    ("1" :> 1) @@ ("2" :> 2) @@ ("3" :> 3) @@ ("4" :> 4) @@ ("5" :> 5)
        @@ ("6" :> 6)
PageText(n) == CHOOSE t \in DOMAIN PagerNumbers : PagerNumbers[t] = n

\* a text of a pagination item that is no number: an arrow
NotNumbers == {">"}

\* OlxScraper._get_last_page.  pager holds the texts of the pagination
\* items of the page, <<>> when the page was not fetched or has no
\* pagination list or no item in it: the result is None (none), or
\* int(pages[-1].text), which is a number (value) or raises ValueError
\* (raised)
get_last_page(pager) ==
    IF pager = <<>> THEN [raised |-> FALSE, none |-> TRUE, value |-> 0]
    ELSE IF pager[Len(pager)] \in DOMAIN PagerNumbers
    THEN [raised |-> FALSE, none |-> FALSE,
          value |-> PagerNumbers[pager[Len(pager)]]]
    ELSE [raised |-> TRUE, none |-> TRUE, value |-> 0]

\* a loop exit that looks at the pagination only
olx_stops_on_pagination_only(last_page, current_page, contains_known) ==
    \/ last_page.none
    \/ current_page >= last_page.value

\* OlxScraper.collect_listings, the tests after the for loop: TRUE when the
\* while loop is left.  last_page is what _get_last_page returned for the
\* page
olx_stops(last_page, current_page, contains_known) ==
    \/ last_page.none
    \/ current_page >= last_page.value
    \/ contains_known

\* VintedScraper.collect_listings, the tests after the for loop and the
\* loop condition of the next round: TRUE when the while loop is left
vinted_stops(n_items, page_size, contains_known, current_page, max_pages) ==
    \/ n_items < page_size
    \/ contains_known
    \/ current_page + 1 > max_pages

\* the page size a target asks for: the page_size option, else the default
requested_page_size(cfg, opts) ==
    coerce_int_option(opts, "page_size", cfg.page_size, 1, max_allowed_page_size)

\* what the model records of a page fetch: the page number, whether the page
\* held a known url, whether it held fewer elements than the page size,
\* whether the fetch gave no listing element at all, whether an exception
\* left collect_listings on that page
LogEntry(p, items, rows, size) ==
    [page |-> p, known |-> page_contains_known(rows, items),
     short |-> Len(items) < size, empty |-> items = <<>>, raised |-> FALSE]

\* One round of the while loop of OlxScraper.collect_listings, the page
\* fetched being resp = [items, pager]; items = <<>> is _get_ads returning
\* None.  _get_last_page comes first: its ValueError leaves collect_listings
\* with what the walk had collected, _scrape_target_url catches it and
\* returns no candidate for the target
OlxFetchPage(resp) ==
    /\ pc = "walk"
    /\ platform = OlxName
    /\ LET last_page == get_last_page(resp.pager)
           entry == LogEntry(page, resp.items, ads,
                             requested_page_size(scraperCfg, options))
       IN  /\ fetchLog' = Append(fetchLog,
                                 [entry EXCEPT !.raised = last_page.raised])
           /\ IF last_page.raised
              THEN /\ pc' = "gather"
                   /\ listings' = <<>>
                   /\ page' = page
              ELSE IF resp.items = <<>>
              THEN /\ pc' = "gather"
                   /\ UNCHANGED <<page, listings>>
              ELSE /\ listings' = listings \o olx_page_candidates(ads, resp.items)
                   /\ IF olx_stops(last_page, page,
                                   page_contains_known(ads, resp.items))
                      THEN pc' = "gather" /\ page' = page
                      ELSE pc' = "walk" /\ page' = page + 1
    /\ UNCHANGED <<platform, scraperCfg, ads, cycle, storeAtStart, options,
                   site, jobs, batch, handed, sendFailed, progress, call, ret, procVars>>

\* One round of the while loop of VintedScraper.collect_listings, the page
\* fetched being resp = [items, snap]; items = <<>> is _search_with_retries
\* returning nothing
VintedFetchPage(resp) ==
    /\ pc = "walk"
    /\ platform = VintedName
    /\ fetchLog' = Append(fetchLog, LogEntry(page, resp.items, ads,
                                           requested_page_size(scraperCfg, options)))
    /\ IF resp.items = <<>>
       THEN /\ pc' = "gather"
            /\ UNCHANGED <<page, listings>>
       ELSE /\ listings' = listings
                   \o vinted_page_candidates(ads, resp.items, resp.snap)
            /\ IF vinted_stops(Len(resp.items),
                               vinted_page_size(scraperCfg, options),
                               page_contains_known(ads, resp.items),
                               page, vinted_max_pages(scraperCfg, options))
               THEN pc' = "gather" /\ page' = page
               ELSE pc' = "walk" /\ page' = page + 1
    /\ UNCHANGED <<platform, scraperCfg, ads, cycle, storeAtStart, options,
                   site, jobs, batch, handed, sendFailed, progress, call, ret, procVars>>

----------------------------------------------------------------------------
(* ScraperOrchestrator *)

\* _scrape_target_url, the filter after collect_listings:
\* candidate.url and not self.database.url_exists(candidate.url)
RECURSIVE filtered_candidates(_, _)
filtered_candidates(rows, candidates) ==
    IF candidates = <<>> THEN <<>>
    ELSE IF Head(candidates).url # "" /\ ~url_exists(rows, Head(candidates).url)
         THEN <<Head(candidates)>> \o filtered_candidates(rows, Tail(candidates))
         ELSE filtered_candidates(rows, Tail(candidates))

\* _gather_new_listing_jobs, the loop over the candidates of a target:
\* a candidate whose url is in seen_urls is ignored
RECURSIVE unique_jobs(_, _)
unique_jobs(candidates, seen_urls) ==
    IF candidates = <<>> THEN <<>>
    ELSE IF Head(candidates).url \in seen_urls
         THEN unique_jobs(Tail(candidates), seen_urls)
         ELSE <<Head(candidates)>>
                  \o unique_jobs(Tail(candidates),
                                 seen_urls \cup {Head(candidates).url})

\* a tagging that sets the url of the candidate whatever the payload holds
tagged_overwriting(ad, url, name) ==
    [k \in DOMAIN ad \cup {"url", "platform"} |->
        IF k = "platform" THEN name
        ELSE IF k = "url" THEN url
        ELSE ad[k]]

\* _fetch_ad_details: ad.setdefault("url", url); ad["platform"] = name
tagged(ad, url, name) ==
    [k \in DOMAIN ad \cup {"url", "platform"} |->
        IF k = "platform" THEN name
        ELSE IF k = "url" /\ "url" \notin DOMAIN ad THEN url
        ELSE ad[k]]

\* the documents a listing page is hydrated from: the fetch raises, the
\* fetch fails, a page without price, a complete page without seller
OlxContent(kind) ==
    IF kind = "fail" THEN [ok |-> FALSE]
    ELSE [ok |-> TRUE,
          title |-> <<NoNode, "T", NoNode, NoNode>>,
          price |-> IF kind = "noprice" THEN <<NoNode, "", NoNode, NoNode>>
                    ELSE <<"9", NoNode, NoNode, NoNode>>,
          description |-> <<"", NoNode, "D", NoNode>>,
          seller |-> <<NoNode, NoNode, NoNode, NoNode>>,
          images |-> <<>>]
DocKinds == {"raise", "fail", "noprice", "full"}

\* scraper.get_ad_data(ad_url) of the scraper named name, on a document of
\* kind kind (not "raise")
get_ad_data(name, ad_url, kind) ==
    IF name = OlxName THEN olx_get_ad_data(ad_url, OlxContent(kind))
    ELSE vinted_get_ad_data(
             ad_url,
             ItemSoup(IF kind = "full" THEN "most"
                      ELSE IF kind = "noprice" THEN "title" ELSE "none"),
             IF kind = "fail" THEN <<>> ELSE <<VintedItem(ad_url)>>)

\* the orders in which the elements of a set may be taken
Orderings(S) ==
    {f \in [1..Cardinality(S) -> S] :
        \A i, j \in 1..Cardinality(S) : f[i] = f[j] => i = j}

\* the orders in which as_completed may yield n futures
CompletionOrders(n) == Orderings(1..n)

\* the elements of seq in the order given
in_order(seq, order) == [i \in 1..Len(seq) |-> seq[order[i]]]

\* _fetch_ad_details: the ads of the jobs that carry data, then the ads of
\* the pending jobs that get_ad_data returned (doc[i] is the document kind
\* of job i).  The pending ads are appended in the order their futures
\* complete: order[k] is the job whose future is the k-th to complete.
RECURSIVE ready_ads(_, _)
ready_ads(js, name) ==
    IF js = <<>> THEN <<>>
    ELSE IF ~IsNull(Head(js).data)
         THEN <<tagged(Head(js).data, Head(js).url, name)>>
                  \o ready_ads(Tail(js), name)
         ELSE ready_ads(Tail(js), name)

\* a hydration that makes a record of a candidate whose get_ad_data
\* returned None
RECURSIVE hydrated_ads_keeping_failed(_, _, _, _)
hydrated_ads_keeping_failed(js, name, doc, i) ==
    IF i > Len(js) THEN <<>>
    ELSE LET rest == hydrated_ads_keeping_failed(js, name, doc, i + 1)
         IN  IF ~IsNull(js[i].data) \/ doc[i] = "raise" THEN rest
             ELSE <<tagged(get_ad_data(name, js[i].url, doc[i]),
                           js[i].url, name)>> \o rest

RECURSIVE hydrated_ads(_, _, _, _)
hydrated_ads(js, name, doc, i) ==
    IF i > Len(js) THEN <<>>
    ELSE LET rest == hydrated_ads(js, name, doc, i + 1)
         IN  IF ~IsNull(js[i].data) \/ doc[i] = "raise" THEN rest
             ELSE LET ad == get_ad_data(name, js[i].url, doc[i])
                  IN  IF IsNull(ad) THEN rest
                      ELSE <<tagged(ad, js[i].url, name)>> \o rest

fetch_ad_details(js, name, doc, order) ==
    ready_ads(js, name)
        \o hydrated_ads(in_order(js, order), name, in_order(doc, order), 1)

\* _scrape_target_url after collect_listings returned, the dedupe loop of
\* _gather_new_listing_jobs, and collect_new_ads returning [] when no job
\* is left
GatherJobs ==
    /\ pc = "gather"
    /\ LET new_listing_jobs ==
               unique_jobs(filtered_candidates(ads, listings), {})
       IN  /\ jobs' = new_listing_jobs
           /\ pc' = IF new_listing_jobs = <<>> THEN "returned" ELSE "details"
    /\ batch' = <<>>
    \* collect_listings has returned: its locals are gone
    /\ page' = 1
    /\ listings' = <<>>
    /\ UNCHANGED <<platform, scraperCfg, ads, cycle, storeAtStart, options,
                   site, fetchLog, handed, sendFailed, progress, call, ret, procVars>>

\* a collect_new_ads that stores the url of every job it hydrates
FetchAdDetailsStoringJobs(doc) ==
    /\ pc = "details"
    /\ \E order \in CompletionOrders(Len(jobs)) :
           batch' = fetch_ad_details(jobs, platform, doc, order)
    /\ ads' = ads (+) SetToBag({jobs[i].url : i \in 1..Len(jobs)})
    /\ pc' = "returned"
    /\ jobs' = <<>>
    /\ UNCHANGED <<platform, scraperCfg, cycle, storeAtStart, options,
                   site, page, listings, fetchLog, handed, sendFailed, progress,
                   call, ret, procVars>>

\* a collect_new_ads that stores the urls of the ads it returns
FetchAdDetailsStoring(doc) ==
    /\ pc = "details"
    /\ \E order \in CompletionOrders(Len(jobs)) :
           batch' = fetch_ad_details(jobs, platform, doc, order)
    /\ ads' = ads (+) SetToBag({batch'[i].url : i \in 1..Len(batch')})
    /\ pc' = "returned"
    /\ jobs' = <<>>
    /\ UNCHANGED <<platform, scraperCfg, cycle, storeAtStart, options,
                   site, page, listings, fetchLog, handed, sendFailed, progress,
                   call, ret, procVars>>

\* _fetch_ad_details, and collect_new_ads returning the ads
\* (doc[i] is the kind of document job i is hydrated from)
FetchAdDetails(doc) ==
    /\ pc = "details"
    /\ \E order \in CompletionOrders(Len(jobs)) :
           batch' = fetch_ad_details(jobs, platform, doc, order)
    /\ pc' = "returned"
    /\ jobs' = <<>>
    /\ UNCHANGED <<platform, scraperCfg, ads, cycle, storeAtStart, options,
                   site, page, listings, fetchLog, handed, sendFailed, progress,
                   call, ret, procVars>>

----------------------------------------------------------------------------
(* run_platform_scraper *)

BatchUrls(ads_list) == {ads_list[i].url : i \in 1..Len(ads_list)}

\* processed_urls = {ad.get('url') for ad in new_ads if ad.get('url')}: a
\* set, which the for loop takes in an order of its own
processed_urls(ads_list) ==
    {ads_list[i].url : i \in {k \in 1..Len(ads_list) :
                                  Has(ads_list[k], "url")}}

\* The top of the while loop: a cycle begins.  storeAtStart keeps what the
\* database held then
StartCycle ==
    /\ pc = "idle"
    /\ cycle < MaxCycles
    /\ cycle' = cycle + 1
    /\ storeAtStart' = StoredUrls(ads)
    /\ pc' = "loading"
    /\ UNCHANGED <<platform, scraperCfg, ads, options, site, page, listings,
                   fetchLog, jobs, batch, handed, sendFailed, progress, call,
                   ret, procVars>>

\* _load_target_urls and the supports filter gave the target of the
\* worker: collect_new_ads(target_urls=[spec.url ...]) is called, which
\* builds TargetSpec(url) with no options
LoadTargets ==
    /\ pc = "loading"
    /\ options' = Null
    /\ pc' = "walk"
    /\ page' = 1
    /\ listings' = <<>>
    /\ fetchLog' = <<>>
    /\ jobs' = <<>>
    /\ batch' = <<>>
    /\ sendFailed' = {}
    /\ progress' = NoProgress
    /\ UNCHANGED <<platform, scraperCfg, ads, cycle, storeAtStart, site,
                   handed, call, ret, procVars>>

\* if not new_ads: nothing to notify or to store, the cycle is over
NoNewAds ==
    /\ pc = "returned"
    /\ batch = <<>>
    /\ pc' = "idle"
    /\ fetchLog' = <<>>
    /\ UNCHANGED <<platform, scraperCfg, ads, cycle, storeAtStart, options,
                   site, page, listings, jobs, batch, handed,
                   sendFailed, progress, call, ret, procVars>>

\* One round of the notification loop: the next ad of the batch is handed
\* to the Messenger; its send raises, which is logged, or returns.  After
\* the last ad the database update begins.
Notify ==
    /\ pc = "returned"
    /\ batch # <<>>
    /\ LET ad == batch[progress.notified + 1]
       IN  /\ \E raised \in BOOLEAN :
                  sendFailed' = IF raised THEN sendFailed \cup {ad.url}
                                ELSE sendFailed
           /\ handed' = [u \in DOMAIN handed |->
                            IF u = ad.url THEN handed[u] \cup {cycle}
                            ELSE handed[u]]
    /\ progress' = [progress EXCEPT !.notified = @ + 1]
    /\ pc' = IF progress.notified + 1 = Len(batch) THEN "commit" ELSE "returned"
    /\ UNCHANGED <<platform, scraperCfg, ads, cycle, storeAtStart, options,
                   site, page, listings, fetchLog, jobs, batch, call, ret,
                   procVars>>

\* One round of the database update at the end of the cycle: db.add_url of
\* the next url of processed_urls, a set the for loop takes in an order of
\* its own, each add_url a transaction of its own.  The add_url stores the
\* url, or raises (sqlite3.OperationalError, the database being locked by
\* another process beyond the busy timeout): the exception leaves the for
\* loop for the except Exception clause, the urls stored before it stay
\* stored and the others are not stored.  After the last url the cycle is
\* over.
Commit ==
    /\ pc = "commit"
    /\ LET remaining == processed_urls(batch) \ progress.stored
       IN  \E url \in IF remaining = {} THEN {NoneVal} ELSE remaining :
           \E raised \in IF remaining = {} THEN {FALSE} ELSE BOOLEAN :
               LET last == remaining \subseteq {url}
                   over == last \/ raised
               IN  /\ ads' = IF remaining = {} \/ raised THEN ads
                              ELSE add_url(ads, url).rows
                   /\ pc' = IF raised THEN "failed"
                            ELSE IF last THEN "idle" ELSE "commit"
                   /\ ret' = IF raised THEN [op |-> "raised", at |-> "commit"]
                             ELSE ret
                   /\ batch' = IF over THEN <<>> ELSE batch
                   /\ sendFailed' = IF over THEN {} ELSE sendFailed
                   /\ fetchLog' = IF over THEN <<>> ELSE fetchLog
                   /\ progress' = IF over THEN NoProgress
                                   ELSE [progress EXCEPT !.stored = @ \cup {url}]
    /\ UNCHANGED <<platform, scraperCfg, cycle, storeAtStart, options, site,
                   page, listings, jobs, handed, call, procVars>>

\* An exception that is not a KeyboardInterrupt is raised inside the try:
\* by the target loading (loading), by collect_new_ads (walk, gather,
\* details), or by the logging of the batch before the first notification
\* (returned).  The except Exception clause catches it.
CycleRaises ==
    /\ \/ pc \in {"loading", "walk", "gather", "details"}
       \/ pc = "returned" /\ progress.notified = 0
    /\ ret' = [op |-> "raised", at |-> pc]
    /\ pc' = "failed"
    /\ page' = 1
    /\ listings' = <<>>
    /\ fetchLog' = <<>>
    /\ jobs' = <<>>
    /\ batch' = <<>>
    /\ sendFailed' = {}
    /\ progress' = NoProgress
    /\ UNCHANGED <<platform, scraperCfg, ads, cycle, storeAtStart, options,
                   site, handed, call, procVars>>

\* the except Exception clause: the error is logged, the worker sleeps and
\* the while loop goes on
RetryAfterPause ==
    /\ pc = "failed"
    /\ pc' = "idle"
    /\ UNCHANGED <<platform, scraperCfg, ads, cycle, storeAtStart, options,
                   site, page, listings, fetchLog, jobs, batch, handed,
                   sendFailed, progress, call, ret, procVars>>

\* KeyboardInterrupt: break (or, during the sleep of the handler, the end
\* of the worker by the exception).  It may come between two rounds of the
\* notification loop or of the database update.
Interrupt ==
    /\ pc \in {"idle", "loading", "walk", "gather", "details", "returned",
               "commit", "failed"}
    /\ pc' = "interrupted"
    /\ UNCHANGED <<platform, scraperCfg, ads, cycle, storeAtStart, options,
                   site, page, listings, fetchLog, jobs, batch, handed,
                   sendFailed, progress, call, ret, procVars>>

----------------------------------------------------------------------------
(* collect_new_ads against an arbitrary source *)

\* what a page fetch of an arbitrary source may return
PageItems == SeqUpTo(SomeUrls \cup {Skipped}, MaxItems)
Pagers ==
    {<<>>} \cup {<<PageText(n)>> : n \in 1..(MaxWalk + 1)}
           \cup {<<t>> : t \in NotNumbers}
OlxResponses == [items : PageItems, pager : Pagers]
VintedResponses == [items : PageItems, snap : SnapKinds]

\* the options of the TargetSpec collect_new_ads is called with;
\* OlxScraper.collect_listings does not read its options
CollectOptions(name) ==
    IF name = OlxName THEN {Null}
    ELSE {Null, [page_size |-> "1", max_pages |-> "2"],
          [page_size |-> "2", max_pages |-> "2"]}

NoCall == [op |-> "none"]
\* no thread besides the one the other variables describe
NoThreads ==
    /\ threads = <<>>
    /\ shared = NoCall
NoSite == [results |-> <<>>, per |-> 1, snap |-> "none", doc |-> "full"]

\* collect_new_ads is called on an orchestrator that holds the scraper of
\* the platform, for one target, whatever the database holds
InitCollect ==
    /\ platform \in Variants
    /\ scraperCfg = VintedScraperInit(default_page_size, default_max_pages)
    /\ ads \in {SetToBag(S) : S \in SUBSET SomeUrls}
    /\ pc = "walk"
    /\ cycle = 1
    /\ storeAtStart = StoredUrls(ads)
    /\ options \in CollectOptions(platform)
    /\ site = NoSite
    /\ page = 1
    /\ listings = <<>>
    /\ fetchLog = <<>>
    /\ jobs = <<>>
    /\ batch = <<>>
    /\ handed = [u \in URLS |-> {}]
    /\ sendFailed = {}
    /\ progress = NoProgress
    /\ call = NoCall
    /\ ret = NoCall
    /\ NoThreads

\* the model follows a walk for MaxWalk page fetches
OlxWalk ==
    /\ Len(fetchLog) < MaxWalk
    /\ \E resp \in OlxResponses : OlxFetchPage(resp)
VintedWalk ==
    /\ Len(fetchLog) < MaxWalk
    /\ \E resp \in VintedResponses : VintedFetchPage(resp)

\* a job that carries data is not hydrated: its document is moot
Hydrate ==
    \E doc \in [1..Len(jobs) -> DocKinds] :
        /\ \A i \in 1..Len(jobs) : ~IsNull(jobs[i].data) => doc[i] = "full"
        /\ FetchAdDetails(doc)

NextCollect ==
    \/ OlxWalk
    \/ VintedWalk
    \/ GatherJobs
    \/ Hydrate

SpecCollect == InitCollect /\ [][NextCollect]_vars

----------------------------------------------------------------------------
(* collect_new_ads against a fixed site *)

\* A site lists its results, newest first, in pages: an olx site in pages of
\* site.per elements with a pagination list 1..P, a vinted site in pages of
\* the size the search asks for.  site.snap is the kind of its item pages
\* (vinted enrichment), site.doc the kind of its listing documents.
SitePageSizes == 1..3

PageCount(n_results, per) == (n_results + per - 1) \div per

SitePage(results, per, p) ==
    SubSeq(results, Min((p - 1) * per + 1, Len(results) + 1),
           Min(p * per, Len(results)))

OlxSiteResponse(s, p) ==
    [items |-> SitePage(s.results, s.per, p),
     pager |-> [i \in 1..PageCount(Len(s.results), s.per) |-> PageText(i)]]

VintedSiteResponse(s, p, page_size) ==
    [items |-> SitePage(s.results, page_size, p), snap |-> s.snap]

\* the options of a target line of target_urls.txt
TargetOptions ==
    {Null}
    \cup {[page_size |-> a] : a \in {"1", "2", "3"}}
    \cup {[max_pages |-> b] : b \in {"1", "2"}}
    \cup {[page_size |-> a, max_pages |-> b] :
             a \in {"1", "2", "3", "x"}, b \in {"0", "1", "2", "25", "x"}}

Sites ==
    {[results |-> SubSeq(UrlOrder, 1, n), per |-> k, snap |-> sn, doc |-> d] :
        n \in 0..MaxResults, k \in SitePageSizes,
        sn \in {"none", "most"}, d \in {"full", "noprice"}}

InitSite ==
    /\ platform \in Variants
    /\ scraperCfg = VintedScraperInit(default_page_size, default_max_pages)
    /\ ads \in {SetToBag(S) : S \in SUBSET URLS}
    /\ pc = "walk"
    /\ cycle = 1
    /\ storeAtStart = StoredUrls(ads)
    /\ options \in TargetOptions
    /\ site \in {s \in Sites :
                    IF platform = OlxName THEN s.snap = "none"
                    ELSE s.per = 1 /\ s.doc = "full"}
    /\ page = 1
    /\ listings = <<>>
    /\ fetchLog = <<>>
    /\ jobs = <<>>
    /\ batch = <<>>
    /\ handed = [u \in URLS |-> {}]
    /\ sendFailed = {}
    /\ progress = NoProgress
    /\ call = NoCall
    /\ ret = NoCall
    /\ NoThreads

OlxSiteWalk == OlxFetchPage(OlxSiteResponse(site, page))
VintedSiteWalk ==
    VintedFetchPage(VintedSiteResponse(
        site, page, vinted_page_size(scraperCfg, options)))
SiteHydrate == FetchAdDetails([i \in 1..Len(jobs) |-> site.doc])

NextSite ==
    \/ OlxSiteWalk
    \/ VintedSiteWalk
    \/ GatherJobs
    \/ SiteHydrate

SpecSite == InitSite /\ [][NextSite]_vars

----------------------------------------------------------------------------
(* DatabaseManager called directly *)

\* the constants of a specification that leaves the worker loop aside
NoCycle ==
    /\ platform = OlxName
    /\ scraperCfg = VintedScraperInit(default_page_size, default_max_pages)
    /\ cycle = 0
    /\ storeAtStart = {}
    /\ options = Null
    /\ site = NoSite
    /\ page = 1
    /\ listings = <<>>
    /\ fetchLog = <<>>
    /\ jobs = <<>>
    /\ batch = <<>>
    /\ handed = [u \in URLS |-> {}]
    /\ sendFailed = {}
    /\ progress = NoProgress

\* call is the history of the calls: for each its method, its url, whether
\* it raised, what it returned (url_exists) and the rows after it
InitStore ==
    /\ NoCycle
    /\ NoThreads
    /\ ads \in {SetToBag(S) : S \in SUBSET URLS}
    /\ pc = "store"
    /\ call = <<>>
    /\ ret = NoCall

CallAddUrl ==
    /\ pc = "store"
    /\ Len(call) < MaxCalls
    /\ \E u \in URLS :
           LET r == add_url(ads, u)
           IN  /\ ads' = r.rows
               /\ call' = Append(call, [op |-> "add_url", url |-> u,
                                        raised |-> r.raised, result |-> FALSE,
                                        rows |-> r.rows])
    /\ UNCHANGED <<cycleVars, ret, procVars>>

CallUrlExists ==
    /\ pc = "store"
    /\ Len(call) < MaxCalls
    /\ \E u \in URLS :
           call' = Append(call, [op |-> "url_exists", url |-> u,
                                 raised |-> FALSE,
                                 result |-> url_exists(ads, u), rows |-> ads])
    /\ UNCHANGED <<cycleVars, ads, ret, procVars>>

NextStore == CallAddUrl \/ CallUrlExists

SpecStore == InitStore /\ [][NextStore]_vars

----------------------------------------------------------------------------
(* VintedScraper._merge_payloads called directly *)

\* partial payloads: each of title, images and seller absent, empty or set
Payloads ==
    {Restrict([title |-> t, images |-> im, seller |-> se], keys) :
        t \in {"", "A", "B"}, im \in {<<>>, <<"x">>, <<"y">>},
        se \in {"S"}, keys \in SUBSET {"title", "images", "seller"}}

InitMerge ==
    /\ NoCycle
    /\ NoThreads
    /\ ads = EmptyBag
    /\ pc = "call"
    /\ call \in [op : {"merge_payloads"}, base : Payloads, override : Payloads]
    /\ ret = NoCall

ApplyMerge ==
    /\ pc = "call"
    /\ call.op = "merge_payloads"
    /\ ret' = merge_payloads(call.base, call.override)
    /\ pc' = "returned"
    /\ UNCHANGED <<platform, scraperCfg, ads, cycle, storeAtStart, options,
                   site, page, listings, fetchLog, jobs, batch, handed,
                   sendFailed, progress, call, procVars>>

NextMerge == ApplyMerge

SpecMerge == InitMerge /\ [][NextMerge]_vars

----------------------------------------------------------------------------
(* get_ad_data called directly *)

\* what the selectors of one field find in an olx listing document
FieldFinds ==
    {<<"T", NoNode, NoNode, NoNode>>, <<"", NoNode, "T2", NoNode>>,
     <<NoNode, NoNode, NoNode, NoNode>>, <<"", "", "", "">>}

OlxContents ==
    {[ok |-> FALSE]}
    \cup [ok : {TRUE}, title : FieldFinds, price : FieldFinds,
          description : FieldFinds,
          seller : {<<NoNode, NoNode, NoNode, "S">>,
                    <<NoNode, NoNode, NoNode, NoNode>>},
          images : {<<>>, <<"x">>}]

\* what the _extract_html_* methods find in a vinted item page
Soups ==
    {[ok |-> FALSE]}
    \cup [ok : {TRUE}, title : {NoneVal, "H"}, price : {NoneVal, "8"},
          description : {NoneVal, "HD"}, seller : {NoneVal, "S"},
          images : {<<>>, <<"x">>}]

\* what client.items.search(ad_url, 1, 1) returns
SearchResults ==
    {<<>>}
    \cup {<<[ok |-> FALSE]>>}
    \cup {<<it>> : it \in [ok : {TRUE}, url : {"u1", NoneVal},
                            title : {NoneVal, "A"}, description : {NoneVal, "D"},
                            price : {NoneVal, "", "9"}, images : {<<"api.jpg">>},
                            seller : {NoneVal, "S"}]}

InitHydrate ==
    /\ NoCycle
    /\ NoThreads
    /\ ads = EmptyBag
    /\ pc = "call"
    /\ call \in [op : {"olx.get_ad_data"}, url : {"u1"}, content : OlxContents]
              \cup [op : {"vinted.get_ad_data"}, url : {"u1"}, soup : Soups,
                    found : SearchResults]
    /\ ret = NoCall

ApplyGetAdData ==
    /\ pc = "call"
    /\ call.op \in {"olx.get_ad_data", "vinted.get_ad_data"}
    /\ ret' = IF call.op = "olx.get_ad_data"
              THEN olx_get_ad_data(call.url, call.content)
              ELSE vinted_get_ad_data(call.url, call.soup, call.found)
    /\ pc' = "returned"
    /\ UNCHANGED <<platform, scraperCfg, ads, cycle, storeAtStart, options,
                   site, page, listings, fetchLog, jobs, batch, handed,
                   sendFailed, progress, call, procVars>>

NextHydrate == ApplyGetAdData

SpecHydrate == InitHydrate /\ [][NextHydrate]_vars

----------------------------------------------------------------------------
(* The outbound fetches *)

\* what one request attempt meets: a transport error (an exception without
\* status), a response of status 401, 403, 429 or 500, a good response
Responses == {"exc", "401", "403", "429", "500", "ok"}

\* a schedule with one more step
delays_of_five == <<0, 1, 2, 4, 8>>

\* delays = (0, 1, 2, 4) of _search_with_retries and _fetch_item_soup
delays == <<0, 1, 2, 4>>

\* what the body of a retry loop does after an attempt: it returns the
\* data, leaves the loop (break) or goes to the next round (continue), and
\* whether it refreshed the cookies first

\* VintedScraper._search_with_retries, the body of the for loop
search_after(attempt, response) ==
    IF response = "ok" THEN [do |-> "return", refresh |-> FALSE]
    ELSE IF response = "403" THEN [do |-> "break", refresh |-> FALSE]
    ELSE IF response \in {"401", "429"}
         THEN [do |-> IF attempt = Len(delays) THEN "break" ELSE "continue",
               refresh |-> TRUE]
    ELSE [do |-> "break", refresh |-> FALSE]

\* VintedScraper._fetch_item_soup, the body of the for loop
item_soup_after(attempt, response) ==
    IF response = "exc" THEN [do |-> "continue", refresh |-> FALSE]
    ELSE IF response = "429"
         THEN [do |-> IF attempt = Len(delays) THEN "break" ELSE "continue",
               refresh |-> FALSE]
    ELSE IF response \in {"401", "403", "500"}
         THEN [do |-> "continue", refresh |-> FALSE]
    ELSE [do |-> "return", refresh |-> FALSE]

\* OlxScraper._parse_content: one requests.get, no loop
parse_content_after(attempt, response) ==
    IF response = "ok" THEN [do |-> "return", refresh |-> FALSE]
    ELSE [do |-> "break", refresh |-> FALSE]

FetchOps == {"search_with_retries", "fetch_item_soup", "parse_content"}

\* the attempts the fetch op may make
attempts_of(op) == IF op = "parse_content" THEN 1 ELSE Len(delays)

fetch_after(op, attempt, response) ==
    IF op = "search_with_retries" THEN search_after(attempt, response)
    ELSE IF op = "fetch_item_soup" THEN item_soup_after(attempt, response)
    ELSE parse_content_after(attempt, response)

\* what the fetch op returns: its data, or its value for no data
fetch_result(op, got_data) ==
    [op |-> "return",
     value |-> IF op = "search_with_retries"
               THEN (IF got_data THEN "items" ELSE "[]")
               ELSE (IF got_data THEN "soup" ELSE "None")]

InitFetch ==
    /\ NoCycle
    /\ ads = EmptyBag
    /\ pc = "call"
    /\ call \in [op : FetchOps, url : {"u1"}]
    /\ ret = NoCall
    /\ threads = [attempt |-> 1, log |-> <<>>]
    /\ shared = NoCall

\* One round of the loop (the one request of parse_content): the sleep, the
\* request, and what follows the response.  The log keeps, per attempt, the
\* seconds slept before it, the response and whether the cookies were
\* refreshed after it.
FetchAttempt ==
    /\ pc = "call"
    /\ call.op \in FetchOps
    /\ \E response \in Responses :
           LET attempt == threads.attempt
               after == fetch_after(call.op, attempt, response)
               entry == [attempt |-> attempt, slept |-> delays[attempt],
                         response |-> response, refresh |-> after.refresh]
               over == \/ after.do # "continue"
                       \/ attempt >= attempts_of(call.op)
           IN  /\ threads' = [attempt |-> IF over THEN attempt ELSE attempt + 1,
                              log |-> Append(threads.log, entry)]
               /\ pc' = IF over THEN "returned" ELSE "call"
               /\ ret' = IF over THEN fetch_result(call.op, after.do = "return")
                         ELSE ret
    /\ UNCHANGED <<platform, scraperCfg, ads, cycle, storeAtStart, options,
                   site, page, listings, fetchLog, jobs, batch, handed,
                   sendFailed, progress, call, shared>>

NextFetch == FetchAttempt

SpecFetch == InitFetch /\ [][NextFetch]_vars

----------------------------------------------------------------------------
(* collect_new_ads over several targets *)

\* How the discovery of a target goes: collect_listings returns the links
\* of a page ("ok"), raises ValueError ("value_error": a url outside the
\* supported domains), raises another exception ("raises"), url_exists
\* raises a database error under it ("store_error"), or no scraper supports
\* the url ("no_scraper")
TargetKinds == {"ok", "value_error", "raises", "store_error", "no_scraper"}
TargetPages == {<<"u1">>, <<"u1", "u2">>, <<"u3">>, <<"u2", "u2">>}
Targets ==
    [kind : {"ok"}, items : TargetPages, done : {FALSE}]
    \cup [kind : TargetKinds \ {"ok"}, items : {<<>>}, done : {FALSE}]

\* _scrape_target_url as seen through future.result(): the exception that
\* leaves it, or the candidates it returns
scrape_target_url(rows, target) ==
    IF target.kind \in {"raises", "store_error"}
    THEN [raised |-> TRUE, candidates |-> <<>>]
    ELSE IF target.kind \in {"no_scraper", "value_error"}
    THEN [raised |-> FALSE, candidates |-> <<>>]
    ELSE [raised |-> FALSE,
          candidates |-> filtered_candidates(
                             rows, olx_page_candidates(rows, target.items))]

CandidateUrls(candidates) == {candidates[i].url : i \in 1..Len(candidates)}

\* a loop body that lets the exception of a future leave
\* _gather_new_listing_jobs
gather_future_reraising(acc, i, result) ==
    IF result.raised
    THEN [jobs |-> <<>>, seen_urls |-> acc.seen_urls, raised |-> TRUE,
          errors |-> acc.errors]
    ELSE [jobs |-> acc.jobs \o unique_jobs(result.candidates, acc.seen_urls),
          seen_urls |-> acc.seen_urls \cup CandidateUrls(result.candidates),
          raised |-> acc.raised, errors |-> acc.errors]

\* a loop body without seen_urls: every candidate becomes a job
gather_future_keeping_all(acc, i, result) ==
    IF result.raised
    THEN [acc EXCEPT !.errors = acc.errors \cup {i}]
    ELSE [jobs |-> acc.jobs \o result.candidates,
          seen_urls |-> acc.seen_urls \cup CandidateUrls(result.candidates),
          raised |-> acc.raised, errors |-> acc.errors]

\* _gather_new_listing_jobs, the body of the loop over as_completed(futures)
\* for the future of target i: acc holds jobs, seen_urls, whether an
\* exception left the method, and the targets whose error was logged
gather_future(acc, i, result) ==
    IF result.raised
    THEN [acc EXCEPT !.errors = acc.errors \cup {i}]
    ELSE [jobs |-> acc.jobs \o unique_jobs(result.candidates, acc.seen_urls),
          seen_urls |-> acc.seen_urls \cup CandidateUrls(result.candidates),
          raised |-> acc.raised, errors |-> acc.errors]

InitTargets ==
    /\ platform = OlxName
    /\ scraperCfg = VintedScraperInit(default_page_size, default_max_pages)
    /\ ads \in {SetToBag(S) : S \in SUBSET {"u1"}}
    /\ pc = "gathering"
    /\ cycle = 1
    /\ storeAtStart = StoredUrls(ads)
    /\ options = Null
    /\ site = NoSite
    /\ page = 1
    /\ listings = <<>>
    /\ fetchLog = <<>>
    /\ jobs = <<>>
    /\ batch = <<>>
    /\ handed = [u \in URLS |-> {}]
    /\ sendFailed = {}
    /\ progress = NoProgress
    /\ call = NoCall
    /\ ret = NoCall
    /\ threads \in [1..MaxTargets -> Targets]
    /\ shared = [seen_urls |-> {}, raised |-> FALSE, errors |-> {}]

\* The next future as_completed yields, of any target not yet handled, and
\* the loop body for it; after the last one, or when an exception leaves
\* the loop, collect_new_ads goes on to the details or returns
GatherFuture ==
    /\ pc = "gathering"
    /\ \E i \in DOMAIN threads :
           /\ ~threads[i].done
           /\ LET acc == [jobs |-> jobs, seen_urls |-> shared.seen_urls,
                          raised |-> shared.raised, errors |-> shared.errors]
                  r == gather_future(acc, i, scrape_target_url(ads, threads[i]))
                  last == \A j \in DOMAIN threads \ {i} : threads[j].done
              IN  /\ threads' = [threads EXCEPT ![i].done = TRUE]
                  /\ jobs' = r.jobs
                  /\ shared' = [seen_urls |-> r.seen_urls, raised |-> r.raised,
                                errors |-> r.errors]
                  /\ pc' = IF r.raised THEN "returned"
                           ELSE IF ~last THEN "gathering"
                           ELSE IF r.jobs = <<>> THEN "returned"
                           ELSE "details"
    /\ UNCHANGED <<platform, scraperCfg, ads, cycle, storeAtStart, options,
                   site, page, listings, fetchLog, batch, handed, sendFailed, progress,
                   call, ret>>

TargetsHydrate == FetchAdDetails([i \in 1..Len(jobs) |-> "full"])

NextTargets == GatherFuture \/ TargetsHydrate

SpecTargets == InitTargets /\ [][NextTargets]_vars

----------------------------------------------------------------------------
(* The worker threads of a thread pool *)

\* The pools: _gather_new_listing_jobs runs _scrape_target_url, hence
\* collect_listings, in up to listing_workers threads; _fetch_ad_details
\* runs get_ad_data in up to detail_workers threads.  All the threads of a
\* pool work on the one scraper instance of the platform.
PoolRoles == {"listing", "detail"}

\* the pools that issue requests: every candidate of VintedScraper carries
\* its data, so that _fetch_ad_details has no pending job for it and its
\* detail pool is never made
PoolsOf(name) == IF name = OlxName THEN PoolRoles ELSE {"listing"}

\* The requests a worker issues, in order.  "get" is requests.get of
\* OlxScraper._parse_content, "search" is self.client.items.search,
\* "refresh" is _refresh_vinted_cookies on vinted_requester (after a search
\* that met 401 or 429), "item_html" is session.get of _fetch_item_soup.
\* No pool runs VintedScraper.get_ad_data
Programs(name, role) ==
    IF name = OlxName
    THEN IF role = "listing" THEN {<<"get">>, <<"get", "get">>}
         ELSE {<<"get">>}
    ELSE IF role = "listing"
         THEN {<<"search">>, <<"search", "item_html">>,
               <<"search", "refresh", "search", "item_html">>}
         ELSE {}

\* The session object a request of worker w goes through: the client made
\* in VintedScraper.__init__ (one per scraper), the module-level
\* vinted_requester (one per process), the session of _get_html_session
\* (one per thread), none for requests.get (a connection of its own)
session_of(request, w) ==
    IF request = "search" THEN [kind |-> "client", owner |-> 0]
    ELSE IF request = "refresh" THEN [kind |-> "requester", owner |-> 0]
    ELSE IF request = "item_html" THEN [kind |-> "html", owner |-> w]
    ELSE [kind |-> "none", owner |-> w]

InitWorkers ==
    /\ platform \in Variants
    /\ scraperCfg = VintedScraperInit(default_page_size, default_max_pages)
    /\ ads = EmptyBag
    /\ pc = "pool"
    /\ cycle = 1
    /\ storeAtStart = {}
    /\ options = Null
    /\ site = NoSite
    /\ page = 1
    /\ listings = <<>>
    /\ fetchLog = <<>>
    /\ jobs = <<>>
    /\ batch = <<>>
    /\ handed = [u \in URLS |-> {}]
    /\ sendFailed = {}
    /\ progress = NoProgress
    /\ call = NoCall
    /\ ret = NoCall
    /\ \E role \in PoolsOf(platform) :
           /\ shared = [role |-> role, in_flight |-> {}]
           /\ threads \in [1..MaxWorkers ->
                              [program : Programs(platform, role), at : {1},
                               pc : {"ready"}]]

\* worker w issues its next request: nothing stands between the worker and
\* the request
BeginRequest(w) ==
    /\ pc = "pool"
    /\ threads[w].pc = "ready"
    /\ threads[w].at <= Len(threads[w].program)
    /\ threads' = [threads EXCEPT ![w].pc = "in_request"]
    /\ shared' = [shared EXCEPT !.in_flight = shared.in_flight \cup {w}]
    /\ UNCHANGED <<cycleVars, ads, call, ret>>

\* the request of worker w is answered
EndRequest(w) ==
    /\ pc = "pool"
    /\ threads[w].pc = "in_request"
    /\ threads' = [threads EXCEPT ![w].pc = "ready", ![w].at = threads[w].at + 1]
    /\ shared' = [shared EXCEPT !.in_flight = shared.in_flight \ {w}]
    /\ UNCHANGED <<cycleVars, ads, call, ret>>

SomeBeginRequest == \E w \in DOMAIN threads : BeginRequest(w)
SomeEndRequest == \E w \in DOMAIN threads : EndRequest(w)

NextWorkers == SomeBeginRequest \/ SomeEndRequest

SpecWorkers == InitWorkers /\ [][NextWorkers]_vars

----------------------------------------------------------------------------
(* The worker processes on the one database *)

\* main() starts one process per platform; each makes its own
\* DatabaseManager on the same database file, and every call of a method
\* opens a connection of its own.  A process issues store calls in order.
StoreOps ==
    [op : {"add_url"}, url : {"u1", "u2"}]
    \cup [op : {"url_exists"}, url : {"u1"}]
WriterPrograms == SeqUpTo(StoreOps, MaxOps) \ {<<>>}

\* The locks of the database file: lock is the connection that holds the
\* write lock of an open transaction, readers are the processes whose SELECT
\* has returned a row and is not finished, which keeps the shared lock.
InitWriters ==
    /\ NoCycle
    /\ ads \in {SetToBag(S) : S \in SUBSET {"u1"}}
    /\ pc = "processes"
    /\ call = NoCall
    /\ ret = NoCall
    /\ threads \in [Variants -> [program : WriterPrograms, at : {1},
                                 pc : {"ready"}, staged : {EmptyBag},
                                 seen : {EmptyBag},
                                 raised : {FALSE}, answers : {<<>>}]]
    /\ shared = [lock |-> "free", readers |-> {}]

\* add_url of process p, conn.execute: the INSERT starts a transaction and
\* takes the write lock of the database, which no other connection holds or
\* which the connection got within its busy timeout; the row is written or
\* ignored.  The shared lock of a reader does not keep the write lock away.
AddUrlExecute(p) ==
    /\ pc = "processes"
    /\ threads[p].pc = "ready"
    /\ threads[p].at <= Len(threads[p].program)
    /\ threads[p].program[threads[p].at].op = "add_url"
    /\ shared.lock = "free"
    /\ LET r == add_url(ads, threads[p].program[threads[p].at].url)
       IN  threads' = [threads EXCEPT ![p].pc = "in_transaction",
                                      ![p].staged = r.rows,
                                      ![p].raised = threads[p].raised \/ r.raised]
    /\ shared' = [shared EXCEPT !.lock = p]
    /\ UNCHANGED <<cycleVars, ads, call, ret>>

\* add_url of process p, conn.execute while another connection holds the
\* write lock for longer than the busy timeout of the connection (the 5 s
\* sqlite3.connect gives it): sqlite3.OperationalError, database is locked,
\* leaves add_url and the url is not stored.  The calls the process makes
\* after it has handled the exception follow.
AddUrlBusy(p) ==
    /\ pc = "processes"
    /\ threads[p].pc = "ready"
    /\ threads[p].at <= Len(threads[p].program)
    /\ threads[p].program[threads[p].at].op = "add_url"
    /\ shared.lock \notin {"free", p}
    /\ threads' = [threads EXCEPT ![p].raised = TRUE,
                                  ![p].at = threads[p].at + 1]
    /\ UNCHANGED <<cycleVars, ads, call, ret, shared>>

\* add_url of process p, the end of the with block: the commit takes the
\* exclusive lock, which it gets once no other connection holds the shared
\* lock; the transaction is committed and the locks are released
AddUrlCommit(p) ==
    /\ pc = "processes"
    /\ threads[p].pc = "in_transaction"
    /\ shared.readers \ {p} = {}
    /\ ads' = threads[p].staged
    /\ threads' = [threads EXCEPT ![p].pc = "ready", ![p].staged = EmptyBag,
                                  ![p].at = threads[p].at + 1]
    /\ shared' = [shared EXCEPT !.lock = "free"]
    /\ UNCHANGED <<cycleVars, call, ret>>

\* add_url of process p, the end of the with block while another connection
\* keeps the shared lock for longer than the busy timeout: the commit raises
\* sqlite3.OperationalError, database is locked, whether the INSERT wrote a
\* row or was ignored; the exception leaves add_url, the connection is
\* dropped with its transaction and the url is not stored
AddUrlCommitBusy(p) ==
    /\ pc = "processes"
    /\ threads[p].pc = "in_transaction"
    /\ shared.readers \ {p} # {}
    /\ threads' = [threads EXCEPT ![p].pc = "ready", ![p].staged = EmptyBag,
                                  ![p].raised = TRUE,
                                  ![p].at = threads[p].at + 1]
    /\ shared' = [shared EXCEPT !.lock = "free"]
    /\ UNCHANGED <<cycleVars, ads, call, ret>>

\* url_exists of process p, conn.execute: the SELECT takes the shared lock
\* and reads the committed rows.  With no row the statement is finished, the
\* lock is given up and url_exists returns False; with a row the statement
\* stays open, and the shared lock with it, until fetchone.
UrlExistsQuery(p) ==
    /\ pc = "processes"
    /\ threads[p].pc = "ready"
    /\ threads[p].at <= Len(threads[p].program)
    /\ threads[p].program[threads[p].at].op = "url_exists"
    /\ LET url == threads[p].program[threads[p].at].url
       IN  IF url_exists(ads, url)
           THEN /\ threads' = [threads EXCEPT ![p].pc = "in_select",
                                              ![p].seen = ads]
                /\ shared' = [shared EXCEPT !.readers = @ \cup {p}]
           ELSE /\ threads' = [threads EXCEPT
                                  ![p].answers = Append(threads[p].answers,
                                                        [url |-> url,
                                                         result |-> FALSE,
                                                         rows |-> ads]),
                                  ![p].at = threads[p].at + 1]
                /\ shared' = shared
    /\ UNCHANGED <<cycleVars, ads, call, ret>>

\* url_exists of process p, cursor.fetchone: the row the SELECT found is
\* taken, the statement is finished and the shared lock given up;
\* url_exists returns True
UrlExistsFetch(p) ==
    /\ pc = "processes"
    /\ threads[p].pc = "in_select"
    /\ LET url == threads[p].program[threads[p].at].url
       IN  threads' = [threads EXCEPT
                          ![p].pc = "ready",
                          ![p].seen = EmptyBag,
                          ![p].answers = Append(threads[p].answers,
                                                [url |-> url,
                                                 result |-> url_exists(threads[p].seen, url),
                                                 rows |-> threads[p].seen]),
                          ![p].at = threads[p].at + 1]
    /\ shared' = [shared EXCEPT !.readers = @ \ {p}]
    /\ UNCHANGED <<cycleVars, ads, call, ret>>

SomeAddUrlExecute == \E p \in Variants : AddUrlExecute(p)
SomeAddUrlBusy == \E p \in Variants : AddUrlBusy(p)
SomeAddUrlCommit == \E p \in Variants : AddUrlCommit(p)
SomeAddUrlCommitBusy == \E p \in Variants : AddUrlCommitBusy(p)
SomeUrlExistsQuery == \E p \in Variants : UrlExistsQuery(p)
SomeUrlExistsFetch == \E p \in Variants : UrlExistsFetch(p)

NextWriters ==
    \/ SomeAddUrlExecute \/ SomeAddUrlBusy \/ SomeAddUrlCommit
    \/ SomeAddUrlCommitBusy \/ SomeUrlExistsQuery \/ SomeUrlExistsFetch

SpecWriters == InitWriters /\ [][NextWriters]_vars

----------------------------------------------------------------------------
(* collect_new_ads over several scrapers *)

\* A scraper registered besides OlxScraper and VintedScraper: a subclass of
\* MarketplaceScraper with supported_domains of its own, one of which
\* OlxScraper supports as well; its candidates carry their data
CustomName == "custom"

\* the hosts (netloc) of the target urls
Hosts == {"www.olx.ro", "WWW.OLX.RO", "www.vinted.fr", "shop.example",
          "other.example"}

\* str.lower() on the hosts
lower(host) == IF host = "WWW.OLX.RO" THEN "www.olx.ro" ELSE host

\* supported_domains of the scraper class
supported_domains(name) ==
    IF name = OlxName THEN {"www.olx.ua", "www.olx.pl", "www.olx.ro"}
    ELSE IF name = CustomName THEN {"www.olx.ro", "shop.example"}
    ELSE {}

\* MarketplaceScraper.supports, and VintedScraper.supports which looks for
\* "vinted" in the lowered host
supports(name, host) ==
    IF name = VintedName THEN lower(host) \in {"www.vinted.fr"}
    ELSE lower(host) \in {lower(d) : d \in supported_domains(name)}

\* _resolve_scraper returning None
NoScraper == NoneVal

\* a resolution that takes the last registered scraper that supports the url
RECURSIVE resolve_scraper_last(_, _)
resolve_scraper_last(scrapers, host) ==
    IF scrapers = <<>> THEN NoScraper
    ELSE IF supports(scrapers[Len(scrapers)], host) THEN scrapers[Len(scrapers)]
    ELSE resolve_scraper_last(SubSeq(scrapers, 1, Len(scrapers) - 1), host)

\* ScraperOrchestrator._resolve_scraper over self.scrapers
RECURSIVE resolve_scraper(_, _)
resolve_scraper(scrapers, host) ==
    IF scrapers = <<>> THEN NoScraper
    ELSE IF supports(Head(scrapers), host) THEN Head(scrapers)
    ELSE resolve_scraper(Tail(scrapers), host)

\* the candidates of the custom scraper for one page
RECURSIVE custom_page_candidates(_, _)
custom_page_candidates(rows, items) ==
    IF items = <<>> THEN <<>>
    ELSE IF Head(items) = Skipped \/ url_exists(rows, Head(items))
         THEN custom_page_candidates(rows, Tail(items))
         ELSE <<ListingCandidate(Head(items),
                                 [url |-> Head(items), title |-> "C"])>>
                  \o custom_page_candidates(rows, Tail(items))

\* scraper.collect_listings(target_url, options, url_exists) of the scraper
\* named name, on a target of one page: OlxScraper raises ValueError when
\* the host, as written, is not one of its supported_domains
collect_listings(name, rows, host, items) ==
    IF name = OlxName
    THEN IF host \notin supported_domains(OlxName)
         THEN [value_error |-> TRUE, candidates |-> <<>>]
         ELSE [value_error |-> FALSE,
               candidates |-> olx_page_candidates(rows, items)]
    ELSE IF name = VintedName
    THEN [value_error |-> FALSE,
          candidates |-> vinted_page_candidates(rows, items, "none")]
    ELSE [value_error |-> FALSE,
          candidates |-> custom_page_candidates(rows, items)]

\* _scrape_target_url: the scraper it returns and the candidates
scrape_target(scrapers, rows, target) ==
    LET scraper == resolve_scraper(scrapers, target.host)
    IN  IF scraper = NoScraper
        THEN [scraper |-> NoScraper, raised |-> FALSE, candidates |-> <<>>]
        ELSE LET got == collect_listings(scraper, rows, target.host,
                                         target.items)
             IN  [scraper |-> scraper, raised |-> FALSE,
                  candidates |-> IF got.value_error THEN <<>>
                                 ELSE filtered_candidates(rows, got.candidates)]

\* the job (scraper, candidate) of _gather_new_listing_jobs
job_of(scraper, candidate) ==
    [url |-> candidate.url, data |-> candidate.data, scraper |-> scraper]

\* _fetch_ad_details over jobs of several scrapers: the ads of the jobs that
\* carry data, then the ads of the pending jobs, each under the name of the
\* scraper of its job
RECURSIVE ready_ads_by(_)
ready_ads_by(js) ==
    IF js = <<>> THEN <<>>
    ELSE ready_ads(<<Head(js)>>, Head(js).scraper) \o ready_ads_by(Tail(js))

RECURSIVE hydrated_ads_by(_, _, _)
hydrated_ads_by(js, doc, i) ==
    IF i > Len(js) THEN <<>>
    ELSE hydrated_ads(<<js[i]>>, js[i].scraper, <<doc[i]>>, 1)
             \o hydrated_ads_by(js, doc, i + 1)

fetch_ad_details_by(js, doc, order) ==
    ready_ads_by(js)
        \o hydrated_ads_by(in_order(js, order), in_order(doc, order), 1)

\* self.scrapers: the default ones, the one a platform worker keeps, and
\* lists given to the constructor or extended by register_scraper
Registries ==
    {<<OlxName>>, <<VintedName>>, <<OlxName, VintedName>>,
     <<OlxName, VintedName, CustomName>>, <<CustomName, OlxName>>}

\* the longest list register_scraper extends
MaxRegistered == 3

\* the scrapers register_scraper is called with
Registered == {VintedName, CustomName}

\* collect_new_ads has submitted _scrape_target_url for every target to
\* the listing pool.  Target i lists the one url UrlNames[i]; ran, whether
\* its worker has returned; by and found, the scraper and the candidates it
\* returned; done, whether as_completed has yielded its future.
\* call.given keeps the list self.scrapers was when collect_new_ads was
\* called, call.scrapers is the list as it is now
InitResolve ==
    /\ NoCycle
    /\ ads \in {SetToBag(S) : S \in SUBSET {"u1"}}
    /\ pc = "gathering"
    /\ \E registry \in Registries :
           call = [op |-> "collect_new_ads", given |-> registry,
                   scrapers |-> registry]
    /\ ret = NoCall
    /\ \E hosts \in [1..MaxResolved -> Hosts] :
           threads = [i \in 1..MaxResolved |->
                         [host |-> hosts[i], items |-> <<UrlNames[i]>>,
                          ran |-> FALSE, done |-> FALSE, by |-> NoScraper,
                          found |-> <<>>]]
    /\ shared = [seen_urls |-> {}, raised |-> FALSE, errors |-> {}]

\* A worker of the listing pool runs _scrape_target_url for target i: it
\* resolves the target among the scrapers the orchestrator holds at that
\* moment, collects and filters
ScrapeTargetUrl(i) ==
    /\ pc = "gathering"
    /\ call.op = "collect_new_ads"
    /\ ~threads[i].ran
    /\ LET got == scrape_target(call.scrapers, ads, threads[i])
       IN  threads' = [threads EXCEPT
                          ![i].ran = TRUE,
                          ![i].by = got.scraper,
                          ![i].found =
                              [k \in 1..Len(got.candidates) |->
                                  job_of(got.scraper, got.candidates[k])]]
    /\ UNCHANGED <<cycleVars, ads, call, ret, shared>>

\* as_completed yields the future of target i, whose worker has returned,
\* and the loop body takes its result
ResolveFuture(i) ==
    /\ pc = "gathering"
    /\ call.op = "collect_new_ads"
    /\ threads[i].ran
    /\ ~threads[i].done
    /\ LET acc == [jobs |-> jobs, seen_urls |-> shared.seen_urls,
                   raised |-> shared.raised, errors |-> shared.errors]
           result == [raised |-> FALSE, candidates |-> threads[i].found]
           r == gather_future(acc, i, result)
           last == \A j \in DOMAIN threads \ {i} : threads[j].done
       IN  /\ threads' = [threads EXCEPT ![i].done = TRUE]
           /\ jobs' = r.jobs
           /\ shared' = [seen_urls |-> r.seen_urls, raised |-> r.raised,
                         errors |-> r.errors]
           /\ pc' = IF r.raised THEN "returned"
                    ELSE IF ~last THEN "gathering"
                    ELSE IF r.jobs = <<>> THEN "returned"
                    ELSE "details"
    /\ UNCHANGED <<platform, scraperCfg, ads, cycle, storeAtStart, options,
                   site, page, listings, fetchLog, batch, handed, sendFailed, progress,
                   call, ret>>

SomeScrapeTargetUrl == \E i \in DOMAIN threads : ScrapeTargetUrl(i)
SomeResolveFuture == \E i \in DOMAIN threads : ResolveFuture(i)

\* _fetch_ad_details, and collect_new_ads returning the ads
ResolveHydrate ==
    /\ pc = "details"
    /\ call.op = "collect_new_ads"
    /\ \E order \in CompletionOrders(Len(jobs)) :
           batch' = fetch_ad_details_by(jobs, [i \in 1..Len(jobs) |-> "full"],
                                        order)
    /\ pc' = "returned"
    /\ jobs' = <<>>
    /\ UNCHANGED <<platform, scraperCfg, ads, cycle, storeAtStart, options,
                   site, page, listings, fetchLog, handed, sendFailed, progress,
                   call, ret, procVars>>

\* register_scraper called by another thread of the caller while the
\* workers of collect_new_ads run: self.scrapers.append(scraper)
RegisterScraperWhileCollecting ==
    /\ pc = "gathering"
    /\ call.op = "collect_new_ads"
    /\ Len(call.scrapers) < MaxRegistered
    /\ \E scraper \in Registered :
           call' = [call EXCEPT !.scrapers = Append(call.scrapers, scraper)]
    /\ UNCHANGED <<platform, scraperCfg, ads, pc, cycle, storeAtStart, options,
                   site, page, listings, fetchLog, jobs, batch, handed,
                   sendFailed, progress, ret, procVars>>

NextResolve ==
    \/ SomeScrapeTargetUrl
    \/ SomeResolveFuture
    \/ ResolveHydrate
    \/ RegisterScraperWhileCollecting

SpecResolve == InitResolve /\ [][NextResolve]_vars

----------------------------------------------------------------------------
(* Pagination walks of concurrent workers *)

\* Two targets of one platform, each walked by a worker thread of the
\* listing pool, on the one scraper instance.  current_page, listings and
\* page_contains_known are locals of collect_listings: each walk has its
\* own.
Walkers == {"first", "second"}

\* a walk that goes on two pages further
next_page_skipping(current_page) == current_page + 2

\* current_page += 1 of OlxScraper, page += 1 of VintedScraper
next_page(current_page) == current_page + 1

\* what a page fetch of a concurrent walk may return: nothing, a page with
\* u1 and u2, a page with u2; for olx without a pagination list, with one
\* that ends on a number, or with one that ends on a text that is no number
WalkItems == {<<>>, <<"u1", "u2">>, <<"u2">>}
OlxWalkResponses ==
    [items : WalkItems, pager : {<<>>, <<PageText(MaxWalk + 1)>>, <<">">>}]
VintedWalkResponses == [items : WalkItems, snap : {"none"}]
NoResponse ==
    IF platform = OlxName THEN [items |-> <<>>, pager |-> <<>>]
    ELSE [items |-> <<>>, snap |-> "none"]

\* the events of a walk: the request for a page is issued (request); the
\* page has arrived with n items (fetched); item n of the page has been
\* dealt with (item); the tests after the for loop are made (processed);
\* an exception has left collect_listings (raised)
WalkEvent(ev, p, n) == [ev |-> ev, page |-> p, n |-> n]

\* each walk has its page, what it has collected, the page it works on
\* (resp), the index of the item it comes to next (at) and
\* page_contains_known (known)
InitWalkers ==
    /\ platform \in Variants
    /\ scraperCfg = VintedScraperInit(2, default_max_pages)
    /\ ads \in {SetToBag(S) : S \in SUBSET {"u1"}}
    /\ pc = "walkers"
    /\ cycle = 1
    /\ storeAtStart = StoredUrls(ads)
    /\ options = Null
    /\ site = NoSite
    /\ page = 1
    /\ listings = <<>>
    /\ fetchLog = <<>>
    /\ jobs = <<>>
    /\ batch = <<>>
    /\ handed = [u \in URLS |-> {}]
    /\ sendFailed = {}
    /\ progress = NoProgress
    /\ call = NoCall
    /\ ret = NoCall
    /\ threads = [w \in Walkers |->
                     [page |-> 1, pc |-> "ready", listings |-> <<>>,
                      log |-> <<>>, resp |-> NoResponse, at |-> 1,
                      known |-> FALSE]]
    /\ shared = NoCall

\* walk w, the top of the while loop: the request for its current page is
\* issued (_parse_content, _search_with_retries); the model follows a walk
\* for MaxWalk pages
RequestPage(w) ==
    /\ pc = "walkers"
    /\ threads[w].pc = "ready"
    /\ threads[w].page <= MaxWalk
    /\ threads' = [threads EXCEPT
                      ![w].pc = "fetching",
                      ![w].log = Append(threads[w].log,
                                        WalkEvent("request", threads[w].page, 0))]
    /\ UNCHANGED <<cycleVars, ads, call, ret, shared>>

\* walk w: the page arrives.  OlxScraper reads the pagination first, and
\* the ValueError of _get_last_page ends the walk with no candidate; a
\* page without listing elements, or a search that failed or gave nothing,
\* ends the walk with what it has; else the for loop over the items begins
PageArrives(w) ==
    /\ pc = "walkers"
    /\ threads[w].pc = "fetching"
    /\ \E resp \in IF platform = OlxName THEN OlxWalkResponses
                    ELSE VintedWalkResponses :
           LET t == threads[w]
               raised == platform = OlxName /\ get_last_page(resp.pager).raised
           IN  threads' = [threads EXCEPT
                   ![w].resp = resp,
                   ![w].at = 1,
                   ![w].known = FALSE,
                   ![w].listings = IF raised THEN <<>> ELSE t.listings,
                   ![w].log = Append(t.log,
                                     IF raised THEN WalkEvent("raised", t.page, 0)
                                     ELSE WalkEvent("fetched", t.page,
                                                    Len(resp.items))),
                   ![w].pc = IF raised \/ resp.items = <<>> THEN "done"
                             ELSE "items"]
    /\ UNCHANGED <<cycleVars, ads, call, ret, shared>>

\* walk w, one round of the for loop over the items of the page: an
\* element without a usable link or an item that lacks a required field is
\* passed over, a known url marks the page, a new url is a candidate, for
\* which VintedScraper first requests the item page (_scrape_item_from_html)
ProcessItem(w) ==
    /\ pc = "walkers"
    /\ threads[w].pc = "items"
    /\ threads[w].at <= Len(threads[w].resp.items)
    /\ LET t == threads[w]
           item == t.resp.items[t.at]
           known == page_contains_known(ads, <<item>>)
           new == IF platform = OlxName
                  THEN olx_page_candidates(ads, <<item>>)
                  ELSE vinted_page_candidates(ads, <<item>>, t.resp.snap)
       IN  IF platform = VintedName /\ new # <<>>
           THEN threads' = [threads EXCEPT ![w].pc = "item_html"]
           ELSE threads' = [threads EXCEPT
                               ![w].known = t.known \/ known,
                               ![w].listings = t.listings \o new,
                               ![w].at = t.at + 1,
                               ![w].log = Append(t.log,
                                                 WalkEvent("item", t.page, t.at))]
    /\ UNCHANGED <<cycleVars, ads, call, ret, shared>>

\* walk w of VintedScraper: the item page has arrived or its fetch has
\* failed, the payloads are merged and the candidate is appended
ItemPageArrives(w) ==
    /\ pc = "walkers"
    /\ threads[w].pc = "item_html"
    /\ LET t == threads[w]
           item == t.resp.items[t.at]
       IN  threads' = [threads EXCEPT
                          ![w].pc = "items",
                          ![w].listings =
                              t.listings \o vinted_page_candidates(
                                                ads, <<item>>, t.resp.snap),
                          ![w].at = t.at + 1,
                          ![w].log = Append(t.log,
                                            WalkEvent("item", t.page, t.at))]
    /\ UNCHANGED <<cycleVars, ads, call, ret, shared>>

\* walk w, after the for loop: the loop is left or goes on with the next
\* page
EndPage(w) ==
    /\ pc = "walkers"
    /\ threads[w].pc = "items"
    /\ threads[w].at > Len(threads[w].resp.items)
    /\ LET t == threads[w]
           stops == IF platform = OlxName
                    THEN olx_stops(get_last_page(t.resp.pager), t.page, t.known)
                    ELSE vinted_stops(
                             Len(t.resp.items),
                             vinted_page_size(scraperCfg, options),
                             t.known, t.page,
                             vinted_max_pages(scraperCfg, options))
       IN  threads' = [threads EXCEPT
                          ![w].log = Append(t.log,
                                            WalkEvent("processed", t.page, 0)),
                          ![w].pc = IF stops THEN "done" ELSE "ready",
                          ![w].page = IF stops THEN t.page
                                      ELSE next_page(t.page)]
    /\ UNCHANGED <<cycleVars, ads, call, ret, shared>>

SomeRequestPage == \E w \in Walkers : RequestPage(w)
SomePageArrives == \E w \in Walkers : PageArrives(w)
SomeProcessItem == \E w \in Walkers : ProcessItem(w)
SomeItemPageArrives == \E w \in Walkers : ItemPageArrives(w)
SomeEndPage == \E w \in Walkers : EndPage(w)

NextWalkers ==
    \/ SomeRequestPage
    \/ SomePageArrives
    \/ SomeProcessItem
    \/ SomeItemPageArrives
    \/ SomeEndPage

SpecWalkers == InitWalkers /\ [][NextWalkers]_vars

----------------------------------------------------------------------------
(* The worker loop reading a target line *)

\* A line of target_urls.txt as _parse_target_line takes it apart: whether
\* it starts with "#", the text before the delimiter "||" (the host of the
\* url stands for the url; "" when the line has none), whether the
\* delimiter is there, and the key=value pairs after it, already stripped
\* ("" for a missing key or value)
OptionPair(key, value) == [key |-> key, value |-> value]
PairLists ==
    {<<>>,
     <<OptionPair("page_size", "1")>>,
     <<OptionPair("page_size", "2"), OptionPair("max_pages", "1")>>,
     <<OptionPair("page_size", ""), OptionPair("max_pages", "2")>>,
     <<OptionPair("page_size", "3"), OptionPair("page_size", "1")>>}
TargetLines ==
    {l \in [comment : BOOLEAN, url : {"", "www.olx.ro", "www.vinted.fr"},
            sep : BOOLEAN, pairs : PairLists] : ~l.sep => l.pairs = <<>>}

\* _parse_target_line, the loop over the pairs: options[key] = value for
\* every pair with a key and a value, a later pair replacing an earlier one
RECURSIVE options_of_pairs(_, _)
options_of_pairs(pairs, opts) ==
    IF pairs = <<>> THEN opts
    ELSE LET pair == Head(pairs)
         IN  IF pair.key = "" \/ pair.value = ""
             THEN options_of_pairs(Tail(pairs), opts)
             ELSE options_of_pairs(Tail(pairs),
                                   (pair.key :> pair.value) @@ opts)

\* TargetSpec(url, options); ok is FALSE for None
TargetSpec(url, opts) == [ok |-> TRUE, url |-> url, options |-> opts]
NoTargetSpec == [ok |-> FALSE]

\* ScraperOrchestrator._parse_target_line
parse_target_line(line) ==
    IF line.comment THEN NoTargetSpec
    ELSE IF line.url = "" THEN NoTargetSpec
    ELSE TargetSpec(line.url,
                    IF line.sep THEN options_of_pairs(line.pairs, Null)
                    ELSE Null)

\* collect_new_ads(target_urls=[...]): TargetSpec(url=url.strip()), whose
\* options are the default empty dict
target_spec_of_url(url) == TargetSpec(url, Null)

InitLine ==
    /\ platform \in Variants
    /\ scraperCfg = VintedScraperInit(default_page_size, default_max_pages)
    /\ ads \in {SetToBag(S) : S \in SUBSET {"u1"}}
    /\ pc = "idle"
    /\ cycle = 0
    /\ storeAtStart = {}
    /\ options = Null
    /\ site \in {s \in Sites :
                    IF platform = OlxName THEN s.snap = "none"
                    ELSE s.per = 1 /\ s.doc = "full"}
    /\ page = 1
    /\ listings = <<>>
    /\ fetchLog = <<>>
    /\ jobs = <<>>
    /\ batch = <<>>
    /\ handed = [u \in URLS |-> {}]
    /\ sendFailed = {}
    /\ progress = NoProgress
    /\ call \in [op : {"target_line"}, line : TargetLines]
    /\ ret = NoCall
    /\ NoThreads

\* run_platform_scraper, the top of the while loop on a file of one line:
\* _load_target_urls parses the line; without a target for this platform
\* the worker sleeps until the next cycle; else collect_new_ads is called
\* with the url of the target and makes its TargetSpec anew
LoadTargetLine ==
    /\ pc = "idle"
    /\ call.op = "target_line"
    /\ cycle < MaxCycles
    /\ cycle' = cycle + 1
    /\ storeAtStart' = StoredUrls(ads)
    /\ LET spec == parse_target_line(call.line)
       IN  IF spec.ok /\ supports(platform, spec.url)
           THEN /\ options' = target_spec_of_url(spec.url).options
                /\ pc' = "walk"
           ELSE /\ options' = Null
                /\ pc' = "idle"
    /\ page' = 1
    /\ listings' = <<>>
    /\ fetchLog' = <<>>
    /\ jobs' = <<>>
    /\ batch' = <<>>
    /\ sendFailed' = {}
    /\ progress' = NoProgress
    /\ UNCHANGED <<platform, scraperCfg, ads, site, handed, call, ret, procVars>>

NextLine ==
    \/ LoadTargetLine
    \/ OlxSiteWalk
    \/ VintedSiteWalk
    \/ GatherJobs
    \/ SiteHydrate

SpecLine == InitLine /\ [][NextLine]_vars

----------------------------------------------------------------------------
(* _fetch_ad_details called directly *)

\* the urls of the candidates of a call
JobUrls == {UrlNames[i] : i \in 1..MaxJobs}

\* candidate.data of the candidate at url: None, a payload with the url of
\* the candidate, a payload with another url, a payload without url
JobData(url) ==
    {Null, [url |-> url, title |-> "A"], [url |-> "u0", title |-> "A"],
     [title |-> "A"]}

\* the jobs (scraper, candidate) a call may be given
JobSet ==
    {job_of(name, ListingCandidate(u, data)) :
        name \in Variants, u \in JobUrls, data \in UNION {JobData(v) : v \in JobUrls}}

\* The jobs of a call have different urls (_gather_new_listing_jobs); doc[i]
\* is the kind of document job i is hydrated from, moot for a job that
\* carries data; order is the order in which the futures complete
InitDetails ==
    /\ NoCycle
    /\ NoThreads
    /\ ads = EmptyBag
    /\ pc = "call"
    /\ \E js \in SeqUpTo(JobSet, MaxJobs) :
           /\ \A i, j \in 1..Len(js) : js[i].url = js[j].url => i = j
           /\ \A i \in 1..Len(js) : js[i].data \in JobData(js[i].url)
           /\ \E doc \in [1..Len(js) -> DocKinds] :
                  /\ \A i \in 1..Len(js) :
                         ~IsNull(js[i].data) => doc[i] = "full"
                  /\ \E order \in CompletionOrders(Len(js)) :
                         call = [op |-> "fetch_ad_details", jobs |-> js,
                                 doc |-> doc, order |-> order]
    /\ ret = NoCall

\* _fetch_ad_details(jobs): ret is the list it returns
ApplyFetchAdDetails ==
    /\ pc = "call"
    /\ call.op = "fetch_ad_details"
    /\ ret' = [op |-> "return",
               value |-> fetch_ad_details_by(call.jobs, call.doc,
                                             call.order)]
    /\ pc' = "returned"
    /\ UNCHANGED <<platform, scraperCfg, ads, cycle, storeAtStart, options,
                   site, page, listings, fetchLog, jobs, batch, handed,
                   sendFailed, progress, call, procVars>>

NextDetails == ApplyFetchAdDetails

SpecDetails == InitDetails /\ [][NextDetails]_vars

----------------------------------------------------------------------------
(* The link checks of OlxScraper.collect_listings *)

\* The href of a listing link, by its form:
\*   "absolute"         https://host/path?query
\*   "scheme_relative"  //host/path?query
\*   "root_relative"    /path?query
\*   "path_relative"    path?query
\* host is "" for the forms without one; path is written without its
\* leading slash
LinkForms == {"absolute", "scheme_relative", "root_relative", "path_relative"}
LinkHosts == {"www.olx.ro", "www.olx.pl", "www.otodom.pl"}
LinkQueries == {"", "utm=1", "reason=extended-region",
                "utm=1&reason=extended-region"}
Links ==
    {l \in [form : LinkForms, host : LinkHosts \cup {""}, path : {"d/x"},
            query : LinkQueries] :
        l.host = "" <=> l.form \in {"root_relative", "path_relative"}}

\* urlparse(url).netloc
netloc(link) == link.host

\* "reason=extended-region" in segments.query
has_filler_marker(query) ==
    query \in {"reason=extended-region", "utm=1&reason=extended-region"}

\* re.search(r"^\/[\w.\-\/]+", url): the href starts with a slash
starts_with_slash(link) == link.form \in {"scheme_relative", "root_relative"}

\* OlxScraper._is_relative_url
is_relative_url(link) ==
    IF netloc(link) = "" THEN TRUE ELSE starts_with_slash(link)

\* OlxScraper._is_internal_url
is_internal_url(link, domain) ==
    IF is_relative_url(link) THEN TRUE
    ELSE netloc(link) \in supported_domains(OlxName)

\* OlxScraper._is_relevant_url
is_relevant_url(link) ==
    IF link.query = "" THEN TRUE
    ELSE IF has_filler_marker(link.query) THEN FALSE
    ELSE TRUE

\* f"{self.schema}://{target_netloc}{link_href}" as urlparse reads it: the
\* href is glued to the host, so that the host of the result ends where the
\* first slash of the href is
glued(target_netloc, link) ==
    IF link.form = "path_relative"
    THEN [host |-> target_netloc \o "d", path |-> "x", query |-> link.query]
    ELSE IF link.form = "scheme_relative"
    THEN [host |-> target_netloc, path |-> "/" \o link.host \o "/" \o link.path,
          query |-> link.query]
    ELSE [host |-> target_netloc, path |-> link.path, query |-> link.query]

\* OlxScraper.collect_listings, the checks of one link up to is_known:
\* whether the link goes on, and the url it goes on as
olx_link_url(link, target_netloc) ==
    IF ~is_internal_url(link, target_netloc)
    THEN [accepted |-> FALSE]
    ELSE IF ~is_relevant_url(link)
    THEN [accepted |-> FALSE]
    ELSE [accepted |-> TRUE,
          url |-> IF is_relative_url(link) THEN glued(target_netloc, link)
                  ELSE [host |-> link.host, path |-> link.path,
                        query |-> link.query]]

\* the target host is one of the supported domains: collect_listings
\* raises ValueError for any other
InitLinks ==
    /\ NoCycle
    /\ NoThreads
    /\ ads = EmptyBag
    /\ pc = "call"
    /\ call \in [op : {"olx_link_url"}, link : Links,
                  target_netloc : supported_domains(OlxName)]
    /\ ret = NoCall

ApplyLinkChecks ==
    /\ pc = "call"
    /\ call.op = "olx_link_url"
    /\ ret' = olx_link_url(call.link, call.target_netloc)
    /\ pc' = "returned"
    /\ UNCHANGED <<platform, scraperCfg, ads, cycle, storeAtStart, options,
                   site, page, listings, fetchLog, jobs, batch, handed,
                   sendFailed, progress, call, procVars>>

NextLinks == ApplyLinkChecks

SpecLinks == InitLinks /\ [][NextLinks]_vars

----------------------------------------------------------------------------
(* OlxScraper._build_page_url called directly *)

\* the query of a url as parse_qsl reads it: its key=value parameters in
\* order
QueryParam(key, value) == [key |-> key, value |-> value]
QueryParams == {QueryParam(k, v) : k \in {"a", "page"}, v \in {"1", "2"}}

\* str(page) for the page numbers of the model
PageNumbers == 1..3
str(n) == <<"1", "2", "3">>[n]

\* the target urls: scheme, host and path fixed, any query of at most
\* MaxParams parameters
PageTargets ==
    [scheme : {"https"}, host : {"www.olx.ro"}, path : {"/oferte/q-x/"},
     query : SeqUpTo(QueryParams, MaxParams)]

\* d[key] = value on a dict kept as the sequence of its items: the value of
\* a key that is there is replaced in place, a new key goes to the end
dict_set(items, key, value) ==
    IF \E i \in 1..Len(items) : items[i].key = key
    THEN [i \in 1..Len(items) |->
             IF items[i].key = key THEN QueryParam(key, value) ELSE items[i]]
    ELSE Append(items, QueryParam(key, value))

\* dict(parse_qsl(query, keep_blank_values=True)): the items of the dict
RECURSIVE dict_of_pairs(_, _)
dict_of_pairs(pairs, items) ==
    IF pairs = <<>> THEN items
    ELSE dict_of_pairs(Tail(pairs),
                       dict_set(items, Head(pairs).key, Head(pairs).value))

\* OlxScraper._build_page_url
build_page_url(target_url, n) ==
    LET query_params == dict_set(dict_of_pairs(target_url.query, <<>>),
                                 "page", str(n))
    IN  [target_url EXCEPT !.query = query_params]

InitPageUrl ==
    /\ NoCycle
    /\ NoThreads
    /\ ads = EmptyBag
    /\ pc = "call"
    /\ call \in [op : {"build_page_url"}, target_url : PageTargets,
                 page : PageNumbers, then : PageNumbers]
    /\ ret = NoCall

\* _build_page_url(target_url, page), and _build_page_url of its result for
\* the page then
ApplyBuildPageUrl ==
    /\ pc = "call"
    /\ call.op = "build_page_url"
    /\ LET built == build_page_url(call.target_url, call.page)
       IN  ret' = [op |-> "return", value |-> built,
                   again |-> build_page_url(built, call.then)]
    /\ pc' = "returned"
    /\ UNCHANGED <<platform, scraperCfg, ads, cycle, storeAtStart, options,
                   site, page, listings, fetchLog, jobs, batch, handed,
                   sendFailed, progress, call, procVars>>

NextPageUrl == ApplyBuildPageUrl

SpecPageUrl == InitPageUrl /\ [][NextPageUrl]_vars

----------------------------------------------------------------------------
(* Image-list discovery called directly *)

\* the img tags one selector matches, in document order: for OLX the src of
\* each tag (NoneVal: no src), for Vinted its src, data-src and srcset
OlxImageTags == SeqUpTo({NoneVal, "x", "y"}, MaxImages)
VintedImageTags ==
    SeqUpTo([src : {NoneVal, "x"}, data_src : {NoneVal, "y"},
             srcset : {NoneVal, <<"z", "2x">>}], MaxImages)

\* the contents of the meta tags of a document, in the order of the keys
\* asked for (NoneVal: no such tag)
MetaImages == {<<og, tw>> : og \in {NoneVal, "m"}, tw \in {NoneVal, "t"}}

\* if src and src not in images: images.append(src), for each src in turn
RECURSIVE append_new(_, _)
append_new(images, srcs) ==
    IF srcs = <<>> THEN images
    ELSE LET src == Head(srcs)
         IN  append_new(IF src # NoneVal /\ src # ""
                           /\ \A i \in 1..Len(images) : images[i] # src
                        THEN Append(images, src) ELSE images,
                        Tail(srcs))

\* OlxScraper._extract_images: content.found[i] are the tags of the i-th
\* selector; the find_all of the last resort matches the tags of the first
RECURSIVE olx_select_all(_, _)
olx_select_all(images, found) ==
    IF found = <<>> THEN images
    ELSE olx_select_all(append_new(images, Head(found)), Tail(found))

olx_extract_images(content) ==
    LET images == olx_select_all(<<>>, content.found)
    IN  IF images = <<>> THEN append_new(images, content.found[1])
        ELSE images

\* VintedScraper._get_meta_content
RECURSIVE get_meta_content(_)
get_meta_content(metas) ==
    IF metas = <<>> THEN NoneVal
    ELSE IF Head(metas) # NoneVal /\ Head(metas) # "" THEN Head(metas)
    ELSE get_meta_content(Tail(metas))

\* src = img.get("src") or img.get("data-src"), else the first word of srcset
vinted_img_src(img) ==
    IF img.src # NoneVal THEN img.src
    ELSE IF img.data_src # NoneVal THEN img.data_src
    ELSE IF img.srcset # NoneVal THEN Head(img.srcset)
    ELSE NoneVal

\* VintedScraper._extract_html_images
vinted_extract_html_images(soup) ==
    LET images == append_new(<<>>, [i \in 1..Len(soup.found[1]) |->
                                       vinted_img_src(soup.found[1][i])])
        fallback == get_meta_content(soup.meta)
    IN  IF images = <<>> /\ fallback # NoneVal THEN <<fallback>> ELSE images

InitImages ==
    /\ NoCycle
    /\ NoThreads
    /\ ads = EmptyBag
    /\ pc = "call"
    /\ \/ call \in [op : {"olx.extract_images"},
                    found : [1..3 -> OlxImageTags], meta : MetaImages]
       \/ call \in [op : {"vinted.extract_html_images"},
                    found : [1..1 -> VintedImageTags], meta : MetaImages]
    /\ ret = NoCall

ApplyOlxExtractImages ==
    /\ pc = "call"
    /\ call.op = "olx.extract_images"
    /\ ret' = [op |-> "return", value |-> olx_extract_images(call)]
    /\ pc' = "returned"
    /\ UNCHANGED <<platform, scraperCfg, ads, cycle, storeAtStart, options,
                   site, page, listings, fetchLog, jobs, batch, handed,
                   sendFailed, progress, call, procVars>>

ApplyVintedExtractImages ==
    /\ pc = "call"
    /\ call.op = "vinted.extract_html_images"
    /\ ret' = [op |-> "return", value |-> vinted_extract_html_images(call)]
    /\ pc' = "returned"
    /\ UNCHANGED <<platform, scraperCfg, ads, cycle, storeAtStart, options,
                   site, page, listings, fetchLog, jobs, batch, handed,
                   sendFailed, progress, call, procVars>>

NextImages == ApplyOlxExtractImages \/ ApplyVintedExtractImages

SpecImages == InitImages /\ [][NextImages]_vars

----------------------------------------------------------------------------
(* OlxScraper._extract_text called directly *)

\* what select_one and get_text give for each selector of the list, in
\* order: no node, a node of empty text, a node with text
SelectorFinds == SeqUpTo({NoNode, "", "T", "T2"}, MaxSelectors)

InitText ==
    /\ NoCycle
    /\ NoThreads
    /\ ads = EmptyBag
    /\ pc = "call"
    /\ call \in [op : {"olx.extract_text"}, found : SelectorFinds]
    /\ ret = NoCall

ApplyExtractText ==
    /\ pc = "call"
    /\ call.op = "olx.extract_text"
    /\ ret' = [op |-> "return", value |-> extract_text(call.found)]
    /\ pc' = "returned"
    /\ UNCHANGED <<platform, scraperCfg, ads, cycle, storeAtStart, options,
                   site, page, listings, fetchLog, jobs, batch, handed,
                   sendFailed, progress, call, procVars>>

NextText == ApplyExtractText

SpecText == InitText /\ [][NextText]_vars

----------------------------------------------------------------------------
(* The worker loop against a site with listings that do not hydrate *)

\* how get_ad_data fails on a listing that does not hydrate: it raises, it
\* returns None for want of a document, or for want of a required field
FailKinds == {"raise", "fail", "noprice"}

\* the OLX worker against a fixed site of one page; call.broken are the
\* listings of the site that do not hydrate, none of them stored; ret
\* keeps the last exception the loop caught
InitBroken ==
    /\ platform = OlxName
    /\ scraperCfg = VintedScraperInit(default_page_size, default_max_pages)
    /\ site \in {s \in Sites : /\ s.snap = "none"
                                /\ s.doc = "full"
                                /\ s.per = MaxItems
                                /\ Len(s.results) <= MaxItems}
    /\ call \in [op : {"site"}, broken : SUBSET Range(site.results),
                 how : FailKinds]
    /\ ads \in {SetToBag(S) : S \in SUBSET (SomeUrls \ call.broken)}
    /\ pc = "idle"
    /\ cycle = 0
    /\ storeAtStart = {}
    /\ options = Null
    /\ page = 1
    /\ listings = <<>>
    /\ fetchLog = <<>>
    /\ jobs = <<>>
    /\ batch = <<>>
    /\ handed = [u \in URLS |-> {}]
    /\ sendFailed = {}
    /\ progress = NoProgress
    /\ ret = NoCall
    /\ NoThreads

BrokenHydrate ==
    FetchAdDetails([i \in 1..Len(jobs) |->
                       IF jobs[i].url \in call.broken THEN call.how
                       ELSE "full"])

NextBroken ==
    \/ StartCycle
    \/ LoadTargets
    \/ OlxSiteWalk
    \/ GatherJobs
    \/ BrokenHydrate
    \/ NoNewAds
    \/ Notify
    \/ Commit
    \/ CycleRaises
    \/ RetryAfterPause
    \/ Interrupt

SpecBroken == InitBroken /\ [][NextBroken]_vars

----------------------------------------------------------------------------
(* One page of VintedScraper.collect_listings with its item-page fetches *)

\* a page loop that fetches the item page before it asks is_known
RECURSIVE vinted_page_html_fetches_before_known(_, _)
vinted_page_html_fetches_before_known(rows, items) ==
    IF items = <<>> THEN <<>>
    ELSE LET ad_data == build_ad_from_item(VintedItem(Head(items)))
             rest == vinted_page_html_fetches_before_known(rows, Tail(items))
         IN  IF IsNull(ad_data) THEN rest ELSE <<ad_data.url>> \o rest

\* the urls _scrape_item_from_html is called with in the for loop over the
\* items of one page, in order
RECURSIVE vinted_page_html_fetches(_, _)
vinted_page_html_fetches(rows, items) ==
    IF items = <<>> THEN <<>>
    ELSE LET ad_data == build_ad_from_item(VintedItem(Head(items)))
             rest == vinted_page_html_fetches(rows, Tail(items))
         IN  IF IsNull(ad_data) THEN rest
             ELSE IF url_exists(rows, ad_data.url) THEN rest
             ELSE <<ad_data.url>> \o rest

InitEnrich ==
    /\ NoCycle
    /\ NoThreads
    /\ ads \in {SetToBag(S) : S \in SUBSET SomeUrls}
    /\ pc = "call"
    /\ call \in [op : {"vinted.page"}, items : PageItems, snap : SnapKinds]
    /\ ret = NoCall

\* the for loop over the items of a page: the candidates it appends and
\* the item pages it fetches
ApplyVintedPage ==
    /\ pc = "call"
    /\ call.op = "vinted.page"
    /\ ret' = [op |-> "return",
               collected |-> vinted_page_candidates(ads, call.items, call.snap),
               html_fetches |-> vinted_page_html_fetches(ads, call.items)]
    /\ pc' = "returned"
    /\ UNCHANGED <<platform, scraperCfg, ads, cycle, storeAtStart, options,
                   site, page, listings, fetchLog, jobs, batch, handed,
                   sendFailed, progress, call, procVars>>

NextEnrich == ApplyVintedPage

SpecEnrich == InitEnrich /\ [][NextEnrich]_vars

----------------------------------------------------------------------------
(* The start of the program *)

\* the keyword parameters of the __init__ of the scraper classes
init_params(name) ==
    IF name = OlxName THEN {}
    ELSE IF name = VintedName THEN {"page_size", "max_pages", "user_agent"}
    ELSE {}

\* a call of a scraper class with keyword arguments: a keyword that is no
\* parameter of its __init__ is a TypeError; body_raises, what the body of
\* the __init__ does
scraper_init(name, kwargs, body_raises) ==
    IF ~(kwargs \subseteq init_params(name)) \/ body_raises
    THEN [raised |-> TRUE, scraper |-> NoScraper]
    ELSE [raised |-> FALSE, scraper |-> name]

\* the vinted scraper of the process: its import failed (VintedScraper is
\* None), its __init__ raises, or it is constructed
VintedStates == {"missing", "raises", "ok"}

\* the scrapers argument of ScraperOrchestrator: left out (None) or a list
NoScrapers == [given |-> FALSE]
GivenScrapers(list) == [given |-> TRUE, list |-> list]

\* ScraperOrchestrator.__init__: scrapers is the argument; the result is
\* self.scrapers, or the exception that left __init__
orchestrator_init(scrapers, vinted) ==
    IF scrapers.given THEN [raised |-> FALSE, scrapers |-> scrapers.list]
    ELSE LET olx == scraper_init(OlxName, {"user_agent"}, FALSE)
             vint == scraper_init(VintedName, {"user_agent"}, vinted = "raises")
         IN  IF olx.raised THEN [raised |-> TRUE, scrapers |-> <<>>]
             ELSE IF vinted = "missing" \/ vint.raised
             THEN [raised |-> FALSE, scrapers |-> <<olx.scraper>>]
             ELSE [raised |-> FALSE, scrapers |-> <<olx.scraper, vint.scraper>>]

\* [s for s in scraper.scrapers if s.name.lower() == platform_name.lower()],
\* the names of the model being in lower case
platform_scrapers(scrapers, platform_name) ==
    SelectSeq(scrapers, LAMBDA s : s = platform_name)

\* main starts run_platform_scraper for olx and for vinted; other callers
\* construct a ScraperOrchestrator with or without scrapers
Init ==
    /\ NoCycle
    /\ NoThreads
    /\ ads \in {SetToBag(S) : S \in SUBSET SomeUrls}
    /\ pc = "start"
    /\ \/ call \in [op : {"run_platform_scraper"},
                    platform_name : {OlxName, VintedName},
                    vinted : VintedStates]
       \/ call \in [op : {"ScraperOrchestrator"},
                    scrapers : {NoScrapers}
                                   \cup {GivenScrapers(l) : l \in Registries},
                    vinted : VintedStates]
    /\ ret = NoCall

\* run_platform_scraper up to its while loop: the worker ends by the
\* exception of the constructor (crashed), returns for want of a scraper of
\* its platform (no_scraper), or reaches the loop (idle)
StartWorker ==
    /\ pc = "start"
    /\ call.op = "run_platform_scraper"
    /\ LET made == orchestrator_init(NoScrapers, call.vinted)
           mine == platform_scrapers(made.scrapers, call.platform_name)
       IN  IF made.raised
           THEN pc' = "crashed" /\ ret' = [op |-> "raised", scrapers |-> <<>>]
           ELSE IF mine = <<>>
           THEN pc' = "no_scraper" /\ ret' = [op |-> "return", scrapers |-> <<>>]
           ELSE pc' = "idle" /\ ret' = [op |-> "loop", scrapers |-> mine]
    /\ UNCHANGED <<platform, scraperCfg, ads, cycle, storeAtStart, options,
                   site, page, listings, fetchLog, jobs, batch, handed,
                   sendFailed, progress, call, procVars>>

\* ScraperOrchestrator(...) called elsewhere
ConstructOrchestrator ==
    /\ pc = "start"
    /\ call.op = "ScraperOrchestrator"
    /\ LET made == orchestrator_init(call.scrapers, call.vinted)
       IN  ret' = [op |-> IF made.raised THEN "raised" ELSE "return",
                   scrapers |-> made.scrapers]
    /\ pc' = "returned"
    /\ UNCHANGED <<platform, scraperCfg, ads, cycle, storeAtStart, options,
                   site, page, listings, fetchLog, jobs, batch, handed,
                   sendFailed, progress, call, procVars>>

\* register_scraper on the orchestrator constructed:
\* self.scrapers.append(scraper), self.scrapers being the list object the
\* caller gave, when it gave one
RegisterScraper ==
    /\ pc = "returned"
    /\ call.op = "ScraperOrchestrator"
    /\ ret.op = "return"
    /\ Len(ret.scrapers) < MaxRegistered
    /\ \E scraper \in Registered :
           /\ ret' = [ret EXCEPT !.scrapers = Append(ret.scrapers, scraper)]
           /\ call' = IF call.scrapers.given
                      THEN [call EXCEPT !.scrapers =
                               GivenScrapers(Append(call.scrapers.list, scraper))]
                      ELSE call
    /\ UNCHANGED <<platform, scraperCfg, ads, pc, cycle, storeAtStart, options,
                   site, page, listings, fetchLog, jobs, batch, handed,
                   sendFailed, progress, procVars>>

Next == StartWorker \/ ConstructOrchestrator \/ RegisterScraper

\* a process that is started runs, and a call that is made returns or raises
Spec == Init /\ [][Next]_vars /\ WF_vars(Next)

----------------------------------------------------------------------------
(* The loop of the earlier entry point, main() of src/main.py *)

\* the longest pagination the walk of a target follows
MaxLegacyPages == 2

\* the most lines of target_urls.txt
MaxLegacyTargets == 2

\* a result page as OlxScraper.parse_content and get_ads give it: fetched
\* or not (None), the relevant internal links of its ads, and the text of
\* the last item of its pagination, "" where there is no pagination
LegacyPage ==
    [fetched : BOOLEAN, links : SUBSET SomeUrls,
     last_page : {""} \cup {PageText(n) : n \in 1..MaxLegacyPages}
                      \cup {">"}]

\* the while loop of OlxScraper.scrape_ads_urls from page current_page on:
\* get_last_page comes first on a fetched page, and its int() raises
\* ValueError on a text that is no number
RECURSIVE scrape_ads_urls_from(_, _, _)
scrape_ads_urls_from(pages, current_page, ads_links) ==
    LET at == pages[current_page]
        bad == at.fetched /\ at.last_page \notin DOMAIN PagerNumbers \cup {""}
    IN  IF bad THEN [value_error |-> TRUE, ads_links |-> {}]
        ELSE IF ~at.fetched THEN [value_error |-> FALSE, ads_links |-> ads_links]
        ELSE LET links == ads_links \cup at.links
             IN  IF \/ at.last_page = ""
                    \/ current_page >= PagerNumbers[at.last_page]
                 THEN [value_error |-> FALSE, ads_links |-> links]
                 ELSE scrape_ads_urls_from(pages, current_page + 1, links)

\* OlxScraper.scrape_ads_urls: the ValueError for a host outside
\* supported_domains or of get_last_page, else the set of the links of the
\* pages walked
scrape_ads_urls(supported, pages) ==
    IF ~supported THEN [value_error |-> TRUE, ads_links |-> {}]
    ELSE scrape_ads_urls_from(pages, 1, {})

\* get_new_ads_urls: the urls of all_urls, in its order, that the database
\* does not hold
get_new_ads_urls(rows, all_urls) ==
    SelectSeq(all_urls, LAMBDA url : ~url_exists(rows, url))

\* the page of an ad as the earlier get_ad_data reads it: not fetched, one
\* of title, price and description missing, or all three present
LegacyDocs == {"unfetched", "no_price", "full"}

\* the earlier OlxScraper.get_ad_data
legacy_get_ad_data(ad_url, doc) ==
    IF doc # "full" THEN NoneVal
    ELSE [title |-> "T", price |-> "P", url |-> ad_url, description |-> "D",
          images |-> <<>>]

\* list(filter(None, pool.map(scraper.get_ad_data, new_ads_urls)))
RECURSIVE legacy_new_ads(_, _, _)
legacy_new_ads(new_ads_urls, doc, i) ==
    IF i > Len(new_ads_urls) THEN <<>>
    ELSE IF doc[i] # "full" THEN legacy_new_ads(new_ads_urls, doc, i + 1)
    ELSE <<legacy_get_ad_data(new_ads_urls[i], doc[i])>>
             \o legacy_new_ads(new_ads_urls, doc, i + 1)

LegacyReset ==
    /\ listings' = <<>>
    /\ batch' = <<>>
    /\ sendFailed' = {}
    /\ progress' = NoProgress

\* the process of the earlier entry point with its one OlxScraper and its
\* DatabaseManager; supported[k], whether the host of line k of
\* target_urls.txt is one of supported_domains
InitLegacy ==
    /\ NoCycle
    /\ NoThreads
    /\ ads \in {SetToBag(S) : S \in SUBSET SomeUrls}
    /\ pc = "legacy_idle"
    /\ \E n \in 1..MaxLegacyTargets :
           call \in [op : {"main"}, supported : [1..n -> BOOLEAN]]
    /\ ret = NoCall

\* the top of the while loop: load_target_urls and the first target
LegacyStartCycle ==
    /\ pc = "legacy_idle"
    /\ cycle < MaxCycles
    /\ cycle' = cycle + 1
    /\ ret' = [op |-> "for", target |-> 1]
    /\ pc' = "legacy_targets"
    /\ storeAtStart' = StoredUrls(ads)
    /\ UNCHANGED <<platform, scraperCfg, ads, options, site,
                   page, listings, fetchLog, jobs, batch, handed, sendFailed,
                   progress, call, procVars>>

\* get_new_ads_urls_for_url and get_new_ads_urls for the next target: the
\* site answers with pages, the set of links is taken in an order of its
\* own, and a target without new urls is passed over
LegacyScrapeTarget ==
    /\ pc = "legacy_targets"
    /\ ret.target <= Len(call.supported)
    /\ \E pages \in [1..MaxLegacyPages -> LegacyPage] :
           LET got == scrape_ads_urls(call.supported[ret.target], pages)
           IN  \E all_urls \in Orderings(got.ads_links) :
                   LET ads_urls == IF got.value_error THEN <<>>
                                   ELSE get_new_ads_urls(ads, all_urls)
                       new_ads_urls == get_new_ads_urls(ads, ads_urls)
                   IN  /\ listings' = new_ads_urls
                       /\ pc' = IF new_ads_urls = <<>> THEN "legacy_targets"
                                ELSE "legacy_details"
                       /\ ret' = IF new_ads_urls = <<>>
                                 THEN [ret EXCEPT !.target = @ + 1]
                                 ELSE ret
    /\ UNCHANGED <<platform, scraperCfg, ads, cycle, storeAtStart, options,
                   site, page, fetchLog, jobs, batch, handed, sendFailed,
                   progress, call, procVars>>

\* pool.map of get_ad_data over the new urls, which keeps their order, and
\* the filter that drops the None results
LegacyHydrate ==
    /\ pc = "legacy_details"
    /\ \E doc \in [1..Len(listings) -> LegacyDocs] :
           LET new_ads == legacy_new_ads(listings, doc, 1)
           IN  /\ batch' = new_ads
               /\ pc' = IF new_ads = <<>> THEN "legacy_commit"
                        ELSE "legacy_notify"
    /\ UNCHANGED <<platform, scraperCfg, ads, cycle, storeAtStart, options,
                   site, page, listings, fetchLog, jobs, handed, sendFailed,
                   progress, call, ret, procVars>>

\* one round of the notification loop
LegacyNotify ==
    /\ pc = "legacy_notify"
    /\ LET ad == batch[progress.notified + 1]
       IN  /\ \E raised \in BOOLEAN :
                  sendFailed' = IF raised THEN sendFailed \cup {ad.url}
                                ELSE sendFailed
           /\ handed' = [u \in DOMAIN handed |->
                            IF u = ad.url THEN handed[u] \cup {cycle}
                            ELSE handed[u]]
    /\ progress' = [progress EXCEPT !.notified = @ + 1]
    /\ pc' = IF progress.notified + 1 = Len(batch) THEN "legacy_commit"
             ELSE "legacy_notify"
    /\ UNCHANGED <<platform, scraperCfg, ads, cycle, storeAtStart, options,
                   site, page, listings, fetchLog, jobs, batch, call, ret,
                   procVars>>

\* one round of  for url in new_ads_urls: db.add_url(url): every new url
\* of the target, the ones get_ad_data gave nothing for included; after the
\* last the for loop over the targets goes on
LegacyCommit ==
    /\ pc = "legacy_commit"
    /\ LET at == Cardinality(progress.stored) + 1
           last == at = Len(listings)
       IN  /\ ads' = add_url(ads, listings[at]).rows
           /\ IF last
              THEN /\ LegacyReset
                   /\ ret' = [ret EXCEPT !.target = @ + 1]
                   /\ pc' = "legacy_targets"
              ELSE /\ progress' = [progress EXCEPT
                                      !.stored = @ \cup {listings[at]}]
                   /\ UNCHANGED <<listings, batch, sendFailed, ret, pc>>
    /\ UNCHANGED <<platform, scraperCfg, cycle, storeAtStart, options, site,
                   page, fetchLog, jobs, handed, call, procVars>>

\* the end of the for loop over the targets and the sleep
LegacyEndCycle ==
    /\ pc = "legacy_targets"
    /\ ret.target > Len(call.supported)
    /\ pc' = "legacy_idle"
    /\ ret' = [op |-> "slept"]
    /\ UNCHANGED <<platform, scraperCfg, ads, cycle, storeAtStart, options,
                   site, page, listings, fetchLog, jobs, batch, handed,
                   sendFailed, progress, call, procVars>>

\* an exception reaches except Exception: of load_target_urls or, for the
\* next target, of scrape_ads_urls (other than ValueError) or of a
\* url_exists (legacy_targets), of pool.map (legacy_details), of the
\* logging of the ads before the first notification (legacy_notify), or of
\* an add_url, the urls stored before it staying stored (legacy_commit).
\* It is logged and, after the sleep, the while loop goes on
LegacyCycleRaises ==
    /\ \/ pc \in {"legacy_details", "legacy_commit"}
       \/ pc = "legacy_targets" /\ ret.target <= Len(call.supported)
       \/ pc = "legacy_notify" /\ progress.notified = 0
    /\ ret' = [op |-> "raised", at |-> pc]
    /\ pc' = "legacy_idle"
    /\ LegacyReset
    /\ UNCHANGED <<platform, scraperCfg, ads, cycle, storeAtStart, options,
                   site, page, fetchLog, jobs, handed, call, procVars>>

\* KeyboardInterrupt: break
LegacyInterrupt ==
    /\ pc \in {"legacy_idle", "legacy_targets", "legacy_details",
               "legacy_notify", "legacy_commit"}
    /\ pc' = "interrupted"
    /\ UNCHANGED <<platform, scraperCfg, ads, cycle, storeAtStart, options,
                   site, page, listings, fetchLog, jobs, batch, handed,
                   sendFailed, progress, call, ret, procVars>>

NextLegacy ==
    \/ LegacyStartCycle
    \/ LegacyScrapeTarget
    \/ LegacyHydrate
    \/ LegacyNotify
    \/ LegacyCommit
    \/ LegacyEndCycle
    \/ LegacyCycleRaises
    \/ LegacyInterrupt

SpecLegacy == InitLegacy /\ [][NextLegacy]_vars

----------------------------------------------------------------------------
(* Properties *)

KnownPageFetched == \E i \in 1..Len(fetchLog) : fetchLog[i].known

\* C1: a url for which url_exists was true before the cycle started is not
\* the url of any record of the batch collect_new_ads returns in that cycle,
\* for either scraper, even when the fetched pages still list it.
NoResurfacing ==
    pc \in {"returned", "commit"} => BatchUrls(batch) \cap storeAtStart = {}

\* a batch is returned by a cycle one of whose pages listed a stored url
NoResurfacingWitness ==
    /\ pc = "returned"
    /\ batch # <<>>
    /\ storeAtStart # {}
    /\ KnownPageFetched

\* C2: over the cycles of run_platform_scraper a url is handed to the
\* Messenger in at most one cycle, whatever the pages return and whichever
\* fetches or notifications fail.
NotifiedInOneCycleOnly ==
    \A u \in URLS : Cardinality(handed[u]) <= 1

\* the calls i and i+1 of the history are add_url of the same url
AddedTwice(i) ==
    /\ call[i].op = "add_url"
    /\ call[i + 1].op = "add_url"
    /\ call[i].url = call[i + 1].url

\* C3: whatever the store holds, two add_url(u) in a row raise nothing,
\* leave url_exists(u) true and exactly one row for u, and the second one
\* leaves the rows as the first one left them.
AddUrlTwice ==
    pc = "store" =>
        \A i \in 1..(Len(call) - 1) :
            AddedTwice(i) =>
                /\ ~call[i].raised
                /\ ~call[i + 1].raised
                /\ url_exists(call[i + 1].rows, call[i].url)
                /\ CopiesIn(call[i].url, call[i + 1].rows) = 1
                /\ call[i + 1].rows = call[i].rows

\* url_exists(u) answers no, then add_url(u) is called twice
AddUrlTwiceWitness ==
    /\ pc = "store"
    /\ Len(call) = 3
    /\ call[1].op = "url_exists"
    /\ ~call[1].result
    /\ call[2].url = call[1].url
    /\ AddedTwice(2)
    /\ url_exists(ads, call[1].url)

\* C4: get_ad_data of either scraper returns None or a record whose title,
\* price and description are all non-empty.
HydrationIsComplete ==
    pc = "returned" /\ call.op \in {"olx.get_ad_data", "vinted.get_ad_data"}
        => IsNull(ret) \/ payload_has_core_fields(ret)

\* what the code does keep of C4: OlxScraper.get_ad_data returns None or a
\* complete record; so does VintedScraper.get_ad_data unless the item search
\* yields no complete item while the item page yields some but not all of
\* the fields
HydrationIsCompleteButHtmlOnly ==
    pc = "returned" /\ call.op \in {"olx.get_ad_data", "vinted.get_ad_data"}
        => \/ IsNull(ret)
           \/ payload_has_core_fields(ret)
           \/ /\ call.op = "vinted.get_ad_data"
              /\ IsNull(fetch_item_via_api(call.found))
              /\ ret = scrape_item_from_html(call.url, call.soup)

----------------------------------------------------------------------------
(* Properties of a walk over a fixed site *)

\* the size of the pages the site serves to the scraper
SitePageSize ==
    IF platform = OlxName THEN site.per
    ELSE vinted_page_size(scraperCfg, options)

\* the number of pages of the site
SitePages == PageCount(Len(site.results), SitePageSize)

\* no page of the site lists a stored url
NoKnownOnSite == Range(site.results) \cap StoredUrls(ads) = {}

\* no page of the site is shorter than the page size the target asks for
NoShortPageOnSite ==
    /\ Len(site.results) > 0
    /\ Len(site.results) % SitePageSize = 0
    /\ requested_page_size(scraperCfg, options) <= SitePageSize

\* the target states the page size it asks for
PageSizeRequested ==
    /\ ~IsNull(options)
    /\ "page_size" \in DOMAIN options
    /\ options["page_size"] \in DOMAIN IntStrings

\* C5: on a source of exactly P pages, none listing a known url and none
\* short, collect_listings of either scraper fetches exactly P pages, for
\* every P up to max_pages.
ExactlyPFetches ==
    (/\ pc = "gather"
     /\ NoKnownOnSite
     /\ NoShortPageOnSite
     /\ SitePages <= vinted_max_pages(scraperCfg, options))
        => Len(fetchLog) = SitePages

\* the scenario of C6: four results in pages of three, exactly one of the
\* first three stored, the fourth not stored, documents without seller
TwoPageScenario ==
    /\ Len(site.results) = 4
    /\ SitePageSize = 3
    /\ Cardinality({i \in 1..3 : url_exists(ads, site.results[i])}) = 1
    /\ ~url_exists(ads, site.results[4])
    /\ site.doc = "full"

ValidRecord(r) ==
    /\ payload_has_core_fields(r)
    /\ "seller" \notin DOMAIN r
    /\ "platform" \in DOMAIN r
    /\ r["platform"] = platform

\* C6: in the two-page scenario the known url of page 1 ends the walk: page
\* 2 is not fetched, the candidates are the two unknown links of page 1, and
\* hydration returns two valid records, each tagged with the platform name.
TwoPageScenarioYieldsTwo ==
    TwoPageScenario =>
        /\ Len(fetchLog) <= 1
        /\ pc = "details" =>
               /\ Len(jobs) = 2
               /\ {jobs[i].url : i \in 1..2}
                      = {site.results[i] : i \in 1..3} \ StoredUrls(ads)
        /\ pc = "returned" =>
               /\ Len(batch) = 2
               /\ BatchUrls(batch)
                      = {site.results[i] : i \in 1..3} \ StoredUrls(ads)
               /\ \A i \in 1..2 : ValidRecord(batch[i])

TwoPageScenarioWitness ==
    /\ TwoPageScenario
    /\ pc = "returned"
    /\ Len(batch) = 2
    /\ fetchLog[1].known

\* C6 as stated: the scenario yields three candidates and three records
TwoPageScenarioYieldsThree ==
    TwoPageScenario =>
        /\ pc = "details" => Len(jobs) = 3
        /\ pc = "returned" => Len(batch) = 3

\* C7: once a fetched page has listed a known url, collect_listings of
\* either scraper fetches no further page.
KnownPageIsLast ==
    \A i \in 1..Len(fetchLog) :
        fetchLog[i].known => i = Len(fetchLog) /\ pc # "walk"

\* a walk ends at its second page or later, on a page listing a known url
KnownPageIsLastWitness ==
    /\ pc = "gather"
    /\ Len(fetchLog) >= 2
    /\ fetchLog[Len(fetchLog)].known

\* C8: once a fetched page has held fewer items than the page size the
\* target asks for, collect_listings of either scraper fetches no further
\* page.
ShortPageIsLast ==
    PageSizeRequested =>
        \A i \in 1..Len(fetchLog) : fetchLog[i].short => i = Len(fetchLog)

\* C9: collect_listings of either scraper ends after at most max_pages page
\* fetches.
AtMostMaxPagesFetches ==
    Len(fetchLog) <= vinted_max_pages(scraperCfg, options)

\* C10: merging primary over secondary gives, field by field, the value of
\* primary when it is non-empty and else the value of secondary; an empty
\* images of primary never replaces that of secondary; the fields that only
\* secondary has are kept.
MergePrecedence ==
    pc = "returned" /\ call.op = "merge_payloads" =>
        LET primary == call.override
            secondary == call.base
        IN  /\ \A k \in DOMAIN primary :
                   IsTruthy(k, primary[k]) => k \in DOMAIN ret /\ ret[k] = primary[k]
            /\ \A k \in DOMAIN secondary :
                   ~Has(primary, k) => k \in DOMAIN ret /\ ret[k] = secondary[k]
            /\ \A k \in DOMAIN ret : Has(primary, k) \/ k \in DOMAIN secondary

\* primary {title: "A", images: []} over secondary {title: "B", images: ["x"]}
\* gives {title: "A", images: ["x"]}
MergePrecedenceWitness ==
    /\ pc = "returned"
    /\ call.op = "merge_payloads"
    /\ call.override = [title |-> "A", images |-> <<>>]
    /\ call.base = [title |-> "B", images |-> <<"x">>]
    /\ ret = [title |-> "A", images |-> <<"x">>]

\* C20: collect_new_ads leaves the store as it found it: from the start of
\* the cycle to the return of the batch, url_exists answers for every url
\* what it answered when the cycle started.
CollectLeavesStore ==
    pc \in {"walk", "gather", "details", "returned"} =>
        \A u \in URLS : url_exists(ads, u) <=> u \in storeAtStart

\* collect_new_ads returns a hydrated ad while the store holds one url,
\* which a fetched page listed
CollectLeavesStoreWitness ==
    /\ pc = "returned"
    /\ batch # <<>>
    /\ KnownPageFetched
    /\ \E u \in URLS : storeAtStart = {u} /\ StoredUrls(ads) = {u}

----------------------------------------------------------------------------
(* Properties of the outbound fetches *)

RetryWrapped == call.op \in {"search_with_retries", "fetch_item_soup"}

\* attempt i of the fetch is followed by another attempt
Retried(i) == Len(threads.log) > i

\* C13: in each fetch path a transport error or a 5xx status on an attempt
\* before the fourth is followed by another attempt of the same fetch, and
\* the fetch that fails returns no data instead of raising.
TransientErrorIsRetried ==
    pc = "returned" /\ call.op \in FetchOps =>
        /\ \A i \in 1..Len(threads.log) :
               threads.log[i].response \in {"exc", "500"} /\ i < 4 => Retried(i)
        /\ ret \in {fetch_result(call.op, TRUE), fetch_result(call.op, FALSE)}

\* C14: in each retry-wrapped fetch an attempt that meets status 403 is the
\* last attempt, and the fetch fails.
HardBlockEndsFetch ==
    RetryWrapped =>
        \A i \in 1..Len(threads.log) :
            threads.log[i].response = "403" =>
                /\ ~Retried(i)
                /\ pc = "returned" => ret = fetch_result(call.op, FALSE)

\* C15: in each retry-wrapped fetch the cookies are refreshed after every
\* attempt that meets 401 or 429 and is followed by another attempt, and the
\* attempts stay within the four steps of the schedule.
ThrottleRefreshesCookies ==
    RetryWrapped =>
        /\ Len(threads.log) <= 4
        /\ \A i \in 1..Len(threads.log) :
               threads.log[i].response \in {"401", "429"} /\ Retried(i)
                   => threads.log[i].refresh

\* C16: whatever the responses, _search_with_retries and _fetch_item_soup
\* make at most four request attempts and then return a value.
FetchEndsWithinFourAttempts ==
    RetryWrapped =>
        /\ Len(threads.log) <= 4
        /\ Len(threads.log) = 4 => pc = "returned"
        /\ pc = "returned" =>
               ret \in {fetch_result(call.op, TRUE), fetch_result(call.op, FALSE)}

\* a fetch meets an exception, 429 and 500 and returns after its fourth
\* attempt
FetchEndsWithinFourAttemptsWitness ==
    /\ RetryWrapped
    /\ pc = "returned"
    /\ Len(threads.log) = 4
    /\ {threads.log[i].response : i \in 1..3} = {"exc", "429", "500"}
    /\ threads.log[4].slept = 4

----------------------------------------------------------------------------
(* Properties of collect_new_ads over several targets *)

\* the targets whose discovery raised
FailingTargets ==
    {i \in DOMAIN threads : threads[i].kind \in {"raises", "store_error"}}

\* the new urls the targets list whose discovery returned
NewUrlsOfTargets ==
    {u \in URLS :
        /\ ~url_exists(ads, u)
        /\ \E i \in DOMAIN threads :
               threads[i].kind = "ok" /\ u \in Range(threads[i].items)}

\* C11: when the discovery of some targets raises, collect_new_ads raises
\* nothing and returns every new listing of the other targets; the failing
\* targets contribute nothing, are logged, and stop no other target.
FailingTargetIsIsolated ==
    pc = "returned" =>
        /\ ~shared.raised
        /\ \A i \in DOMAIN threads : threads[i].done
        /\ BatchUrls(batch) = NewUrlsOfTargets
        /\ shared.errors = FailingTargets

\* one target raises, the two others list different new urls, and the batch
\* holds the urls of both
FailingTargetIsIsolatedWitness ==
    /\ pc = "returned"
    /\ \E i \in DOMAIN threads : threads[i].kind = "raises"
    /\ \E i, j \in DOMAIN threads :
           /\ threads[i].kind = "ok"
           /\ threads[j].kind = "ok"
           /\ Range(threads[i].items) \cap Range(threads[j].items) = {}
    /\ Cardinality(BatchUrls(batch)) >= 2

\* C12: when url_exists raises during the discovery of a target,
\* collect_new_ads raises to its caller and returns no batch.
StoreErrorEndsCycle ==
    (/\ pc = "returned"
     /\ \E i \in DOMAIN threads : threads[i].kind = "store_error")
        => shared.raised /\ batch = <<>>

----------------------------------------------------------------------------
(* Properties of the worker threads *)

\* the request worker w has in flight
RequestOf(w) == threads[w].program[threads[w].at]

\* C17: every request of a scraper instance passes a rate limiter shared by
\* its workers, so that two requests of the instance are never issued
\* closer than the minimum spacing, in particular never at the same time.
RequestsAreSpaced ==
    pc = "pool" => Cardinality(shared.in_flight) <= 1

\* C18: no session is used by two workers running at the same time: the
\* session of every request in flight belongs to the worker that issues it.
SessionsArePrivate ==
    pc = "pool" =>
        \A v, w \in shared.in_flight :
            v # w /\ session_of(RequestOf(v), v).kind # "none"
                => session_of(RequestOf(v), v) # session_of(RequestOf(w), w)

----------------------------------------------------------------------------
(* Properties of the worker processes on the one database *)

\* process p has made all the calls of its program
ProcessDone(p) == threads[p].at > Len(threads[p].program)

\* the urls process p has add_url calls for
UrlsAddedBy(p) ==
    {threads[p].program[i].url :
        i \in {j \in 1..Len(threads[p].program) :
                  threads[p].program[j].op = "add_url"}}

\* C19: however the add_url calls of the two processes interleave, no call
\* reports an error, no url is ever stored twice, a url both have added is
\* stored exactly once, and url_exists only ever sees rows as some commit
\* left them.
ConcurrentInsertsAreSerialized ==
    pc = "processes" =>
        /\ \A p \in Variants : ~threads[p].raised
        /\ \A u \in URLS : CopiesIn(u, ads) <= 1
        /\ (\A p \in Variants : ProcessDone(p)) =>
               \A p \in Variants : \A u \in UrlsAddedBy(p) : CopiesIn(u, ads) = 1
        /\ \A p \in Variants : \A i \in 1..Len(threads[p].answers) :
               LET a == threads[p].answers[i]
               IN  /\ \A u \in URLS : CopiesIn(u, a.rows) <= 1
                   /\ a.result <=> CopiesIn(a.url, a.rows) = 1
                   /\ a.result => url_exists(ads, a.url)

\* However the calls interleave, no url is ever stored twice, a url both
\* processes have added is stored exactly once when no add_url gave up the
\* wait for the lock, and url_exists only ever sees rows as some commit left
\* them.
ConcurrentInsertsNeverDuplicate ==
    pc = "processes" =>
        /\ \A u \in URLS : CopiesIn(u, ads) <= 1
        /\ (\A p \in Variants : ProcessDone(p) /\ ~threads[p].raised) =>
               \A p \in Variants : \A u \in UrlsAddedBy(p) : CopiesIn(u, ads) = 1
        /\ \A p \in Variants : \A i \in 1..Len(threads[p].answers) :
               LET a == threads[p].answers[i]
               IN  /\ \A u \in URLS : CopiesIn(u, a.rows) <= 1
                   /\ a.result <=> CopiesIn(a.url, a.rows) = 1
                   /\ a.result => url_exists(ads, a.url)

----------------------------------------------------------------------------
(* Properties of the store over a history of calls *)

\* C21: the store only grows: after every call the stored urls include
\* those stored after any earlier call, and a url for which url_exists has
\* answered true is stored ever after and found by every later url_exists.
StoreOnlyGrows ==
    pc = "store" =>
        \A i \in 1..Len(call) :
            /\ \A j \in i..Len(call) :
                   /\ StoredUrls(call[i].rows) \subseteq StoredUrls(call[j].rows)
                   /\ (/\ call[i].op = "url_exists"
                       /\ call[i].result
                       /\ call[j].op = "url_exists"
                       /\ call[j].url = call[i].url) => call[j].result
            /\ StoredUrls(call[i].rows) \subseteq StoredUrls(ads)
            /\ call[i].op = "url_exists" /\ call[i].result
                   => url_exists(ads, call[i].url)

\* url_exists(u) answers yes, add_url stores another url that was not
\* stored, and url_exists(u) answers yes again
StoreOnlyGrowsWitness ==
    /\ pc = "store"
    /\ Len(call) = 3
    /\ call[1].op = "url_exists"
    /\ call[1].result
    /\ call[2].op = "add_url"
    /\ call[2].url # call[1].url
    /\ ~url_exists(call[1].rows, call[2].url)
    /\ call[3].op = "url_exists"
    /\ call[3].url = call[1].url
    /\ call[3].result

----------------------------------------------------------------------------
(* Properties of the batch of collect_new_ads *)

\* no two elements of the sequence have the same url
UniqueUrls(records) ==
    \A i, j \in 1..Len(records) : records[i].url = records[j].url => i = j

\* C22: the batch of collect_new_ads never holds two records of one url,
\* whether the url is listed by several targets or several times by one
\* target; of the occurrences of a url the first one the orchestrator meets
\* is kept: a job, once taken, stays in its place while later futures are
\* handled, and the batch holds one record for the url of every job.
BatchUrlsAreUnique ==
    [][/\ UniqueUrls(jobs')
       /\ UniqueUrls(batch')
       /\ pc = "gathering" =>
              /\ Len(jobs') >= Len(jobs)
              /\ SubSeq(jobs', 1, Len(jobs)) = jobs
       /\ pc = "details" =>
              /\ Len(batch') = Len(jobs)
              /\ BatchUrls(batch') = CandidateUrls(jobs)]_vars

\* a new url is listed twice by one target and again by another target,
\* and the batch holds it once
BatchUrlsAreUniqueWitness ==
    /\ pc = "returned"
    /\ \E i, j \in DOMAIN threads :
           /\ i # j
           /\ threads[i].kind = "ok"
           /\ threads[i].items = <<"u2", "u2">>
           /\ threads[j].kind = "ok"
           /\ threads[j].items = <<"u1", "u2">>
    /\ Cardinality({k \in 1..Len(batch) : batch[k].url = "u2"}) = 1

----------------------------------------------------------------------------
(* Properties of collect_new_ads over several scrapers *)

\* the target that lists the url
TargetListing(url) == CHOOSE i \in DOMAIN threads : threads[i].items = <<url>>

\* scraper s is registered and supports the host, and no scraper
\* registered before it does
IsFirstSupporting(s, scrapers, host) ==
    \E k \in 1..Len(scrapers) :
        /\ scrapers[k] = s
        /\ supports(s, host)
        /\ \A m \in 1..(k - 1) : ~supports(scrapers[m], host)

\* the targets whose listing becomes a record: a scraper handles the
\* target, the listing is not stored, and the host is not one OlxScraper
\* refuses
YieldingTargets ==
    {i \in DOMAIN threads :
        /\ threads[i].by # NoScraper
        /\ ~url_exists(ads, threads[i].items[1])
        /\ threads[i].by = OlxName =>
               threads[i].host \in supported_domains(OlxName)}

\* C23: every target is handled by the first registered scraper whose
\* supports is true for its url, and by no other; a target is left
\* without a scraper only when none of the scrapers collect_new_ads was
\* called with supports it, and then it yields no job and no record,
\* raises nothing, and leaves the other targets their records.
OneScraperPerTarget ==
    /\ ~shared.raised
    /\ \A i \in DOMAIN threads :
           threads[i].ran =>
               IF threads[i].by = NoScraper
               THEN \A k \in 1..Len(call.given) :
                        ~supports(call.given[k], threads[i].host)
               ELSE IsFirstSupporting(threads[i].by, call.scrapers,
                                      threads[i].host)
    /\ \A k \in 1..Len(jobs) :
           LET i == TargetListing(jobs[k].url)
           IN  /\ threads[i].done
               /\ i \in YieldingTargets
               /\ jobs[k].scraper = threads[i].by
    /\ pc = "returned" =>
           /\ \A i \in DOMAIN threads : threads[i].done
           /\ BatchUrls(batch) = {threads[i].items[1] : i \in YieldingTargets}
           /\ \A k \in 1..Len(batch) :
                  batch[k]["platform"] = threads[TargetListing(batch[k].url)].by

\* of two targets one has a host no scraper supports, the other a host
\* both the custom scraper and OlxScraper support, the custom one being
\* registered first: the batch is the one record of the custom scraper
OneScraperPerTargetWitness ==
    /\ pc = "returned"
    /\ call.scrapers = <<CustomName, OlxName>>
    /\ \E i, j \in DOMAIN threads :
           /\ threads[i].host = "other.example"
           /\ threads[i].by = NoScraper
           /\ threads[j].host = "www.olx.ro"
           /\ threads[j].by = CustomName
    /\ Len(batch) = 1
    /\ batch[1]["platform"] = CustomName

----------------------------------------------------------------------------
(* Properties of concurrent pagination walks *)

\* the requests for a page walk w has issued, in order
PageRequests(w) == SelectSeq(threads[w].log, LAMBDA e : e.ev = "request")

\* the items of page p that walk w had dealt with before event k of its log
ItemsDealtWith(w, p, k) ==
    {i \in 1..(k - 1) :
        threads[w].log[i].ev = "item" /\ threads[w].log[i].page = p}

\* C24: in every walk, however the walks of other targets interleave with
\* it, the pages are requested in the order 1, 2, 3, ... with none skipped
\* or repeated, and the request for a page is issued only after the page
\* before it has been fetched and every item of that page has been dealt
\* with.
PagesInOrder ==
    pc = "walkers" =>
        \A w \in Walkers :
            /\ \A n \in 1..Len(PageRequests(w)) : PageRequests(w)[n].page = n
            /\ \A k \in 1..Len(threads[w].log) :
                   LET e == threads[w].log[k]
                   IN  e.ev = "request" /\ e.page > 1 =>
                           \E j \in 1..(k - 1) :
                               /\ threads[w].log[j].ev = "fetched"
                               /\ threads[w].log[j].page = e.page - 1
                               /\ Cardinality(ItemsDealtWith(w, e.page - 1, k))
                                      = threads[w].log[j].n

\* one walk waits for its page 3 while the other is in the for loop over
\* the items of its page 1, its first item dealt with
PagesInOrderWitness ==
    /\ pc = "walkers"
    /\ \E v, w \in Walkers :
           /\ threads[v].pc = "fetching"
           /\ threads[v].page = 3
           /\ threads[w].pc \in {"items", "item_html"}
           /\ threads[w].page = 1
           /\ threads[w].at = 2

----------------------------------------------------------------------------
(* Properties of the worker loop reading a target line *)

\* the options the target line configures
ConfiguredOptions == parse_target_line(call.line).options

\* C25: the collect_listings call of a cycle receives the options of the
\* target line the worker loop read, so that the page size and the page cap
\* of the walk are the configured ones.
TargetOptionsReachWalk ==
    pc = "walk" =>
        /\ options = ConfiguredOptions
        /\ vinted_page_size(scraperCfg, options)
               = vinted_page_size(scraperCfg, ConfiguredOptions)
        /\ vinted_max_pages(scraperCfg, options)
               = vinted_max_pages(scraperCfg, ConfiguredOptions)

----------------------------------------------------------------------------
(* Properties of one walk *)

\* the step is a page fetch that gave no listing element
EmptyPageFetched ==
    /\ Len(fetchLog') = Len(fetchLog) + 1
    /\ fetchLog'[Len(fetchLog')].empty

\* C26: when the fetch of a page fails or gives no listing container,
\* collect_listings of either scraper ends there without raising, and what
\* it returns is what it had collected from the pages before: nothing when
\* the page is the first.
EmptyPageEndsWalk ==
    [][EmptyPageFetched =>
           /\ ~fetchLog'[Len(fetchLog')].raised
           /\ pc' = "gather"
           /\ listings' = listings
           /\ fetchLog = <<>> => listings' = <<>>]_vars

\* the results of the site on the pages fetched so far
FetchedResults ==
    SubSeq(site.results, 1,
           Min(Len(fetchLog) * SitePageSize, Len(site.results)))

\* C27: of the urls of every fetched page, a page listing a known url
\* included, exactly those that are not known are emitted as candidates,
\* whether they come before or after a known one; a known url is never
\* emitted.
KnownPageKeepsNewUrls ==
    pc \in {"walk", "gather"} =>
        /\ CandidateUrls(listings) = Range(FetchedResults) \ StoredUrls(ads)
        /\ Len(listings) = Cardinality(CandidateUrls(listings))

\* the one fetched page lists a new url, a known url and another new url,
\* and both new urls are candidates
KnownPageKeepsNewUrlsWitness ==
    /\ pc = "gather"
    /\ Len(fetchLog) = 1
    /\ fetchLog[1].known
    /\ SitePageSize = 3
    /\ Len(site.results) >= 3
    /\ ~url_exists(ads, site.results[1])
    /\ url_exists(ads, site.results[2])
    /\ ~url_exists(ads, site.results[3])
    /\ CandidateUrls(listings) = {site.results[1], site.results[3]}

----------------------------------------------------------------------------
(* Properties of _fetch_ad_details *)

\* job i of the call carries its data
CarriesData(i) == ~IsNull(call.jobs[i].data)

\* job i of the call is pending and its get_ad_data gives a payload
Hydrates(i) ==
    /\ ~CarriesData(i)
    /\ call.doc[i] # "raise"
    /\ ~IsNull(get_ad_data(call.jobs[i].scraper, call.jobs[i].url,
                           call.doc[i]))

\* job i of the call is pending and its get_ad_data raises or gives None
FailsToHydrate(i) == ~CarriesData(i) /\ ~Hydrates(i)

\* the records of the returned list at the url
RecordsAt(url) ==
    {k \in 1..Len(ret.value) : ret.value[k].url = url}

\* C28: whichever pending candidates have a get_ad_data that raises or
\* returns None, _fetch_ad_details returns a list: one record for every
\* candidate that carries data or whose hydration succeeds, none for the
\* candidates whose hydration failed.
FailedHydrationIsSkipped ==
    pc = "returned" /\ call.op = "fetch_ad_details" =>
        /\ ret.op = "return"
        /\ Len(ret.value) =
               Cardinality({i \in 1..Len(call.jobs) :
                               CarriesData(i) \/ Hydrates(i)})
        /\ \A i \in 1..Len(call.jobs) :
               /\ Hydrates(i) =>
                      \E k \in RecordsAt(call.jobs[i].url) :
                          payload_has_core_fields(ret.value[k])
               /\ FailsToHydrate(i) => RecordsAt(call.jobs[i].url) = {}

\* of two pending candidates the get_ad_data of the first raises and the
\* second is hydrated: the list holds the record of the second
FailedHydrationIsSkippedWitness ==
    /\ pc = "returned"
    /\ call.op = "fetch_ad_details"
    /\ Len(call.jobs) = 2
    /\ ~CarriesData(1)
    /\ call.doc[1] = "raise"
    /\ Hydrates(2)
    /\ Len(ret.value) = 1
    /\ ret.value[1].url = call.jobs[2].url

\* the jobs of the call that carry data, in their order
DataJobs == SelectSeq(call.jobs, LAMBDA j : ~IsNull(j.data))

\* C29: every record of the batch has a platform field, the name of the
\* scraper of its candidate, and a url field; the url of a payload that
\* has one is kept, and a payload without url gets the url of the
\* candidate; the other fields of the payload are kept.
RecordsAreTagged ==
    pc = "returned" /\ call.op = "fetch_ad_details" =>
        /\ \A k \in 1..Len(ret.value) :
               {"url", "platform"} \subseteq DOMAIN ret.value[k]
        /\ \A k \in 1..Len(DataJobs) :
               LET job == DataJobs[k]
                   record == ret.value[k]
               IN  /\ record["platform"] = job.scraper
                   /\ record.url = IF "url" \in DOMAIN job.data
                                    THEN job.data.url ELSE job.url
                   /\ \A f \in DOMAIN job.data : record[f] = job.data[f]
        /\ \A i \in 1..Len(call.jobs) :
               Hydrates(i) =>
                   \A k \in RecordsAt(call.jobs[i].url) :
                       k > Len(DataJobs) =>
                           ret.value[k]["platform"] = call.jobs[i].scraper

\* a candidate of the vinted scraper whose payload has another url keeps
\* it, and a candidate of the olx scraper whose payload has no url gets its
\* own
RecordsAreTaggedWitness ==
    /\ pc = "returned"
    /\ call.op = "fetch_ad_details"
    /\ Len(call.jobs) = 2
    /\ call.jobs[1] = job_of(VintedName,
                             ListingCandidate("u1", [url |-> "u0", title |-> "A"]))
    /\ call.jobs[2] = job_of(OlxName, ListingCandidate("u2", [title |-> "A"]))
    /\ ret.value = <<[url |-> "u0", title |-> "A", platform |-> VintedName],
                     [url |-> "u2", title |-> "A", platform |-> OlxName]>>

----------------------------------------------------------------------------
(* Properties of the link checks *)

\* C30: every candidate of OlxScraper.collect_listings is a url whose host
\* is one of the supported domains and whose query lacks the filler marker;
\* a link whose host is outside the supported domains, or which carries the
\* marker, never becomes a candidate; a link of a supported host with
\* another query does.
CandidateIsSupportedListing ==
    pc = "returned" /\ call.op = "olx_link_url" =>
        /\ ret.accepted =>
               /\ ret.url.host \in supported_domains(OlxName)
               /\ ~has_filler_marker(ret.url.query)
        /\ (/\ call.link.host # ""
            /\ call.link.host \notin supported_domains(OlxName))
               => ~ret.accepted
        /\ has_filler_marker(call.link.query) => ~ret.accepted
        /\ (/\ call.link.host \in supported_domains(OlxName)
            /\ ~has_filler_marker(call.link.query)) => ret.accepted

\* what the code keeps of C30: the marker always rejects the link; a link
\* with scheme and host, or one that starts with a single slash, becomes a
\* candidate exactly when its host is supported or absent, and then the
\* host of the candidate is a supported domain
CandidateIsSupportedListingButOddForms ==
    pc = "returned" /\ call.op = "olx_link_url" =>
        /\ has_filler_marker(call.link.query) => ~ret.accepted
        /\ ret.accepted => ~has_filler_marker(ret.url.query)
        /\ call.link.form \in {"absolute", "root_relative"} =>
               /\ ret.accepted <=>
                      /\ ~has_filler_marker(call.link.query)
                      /\ call.link.host \in supported_domains(OlxName) \cup {""}
               /\ ret.accepted =>
                      ret.url.host \in supported_domains(OlxName)

----------------------------------------------------------------------------
(* Properties of _build_page_url *)

\* how often the parameter occurs in the query
Occurrences(query, param) ==
    Cardinality({i \in 1..Len(query) : query[i] = param})

\* C31: the url built for page n has the scheme, host and path of the
\* target; its query holds every parameter of the target other than page,
\* each value of a repeated key included, and exactly one page parameter,
\* equal to n; building page m from it gives what building page m from the
\* target gives.
PageUrlKeepsParameters ==
    pc = "returned" /\ call.op = "build_page_url" =>
        LET target_url == call.target_url
            built == ret.value
        IN  /\ built.scheme = target_url.scheme
            /\ built.host = target_url.host
            /\ built.path = target_url.path
            /\ \A param \in QueryParams :
                   param.key # "page" =>
                       Occurrences(built.query, param)
                           = Occurrences(target_url.query, param)
            /\ Cardinality({i \in 1..Len(built.query) :
                               built.query[i].key = "page"}) = 1
            /\ Occurrences(built.query, QueryParam("page", str(call.page))) = 1
            /\ ret.again = build_page_url(target_url, call.then)

\* what the code keeps of C31: all of it on targets whose query repeats no
\* key other than page; of a repeated key the last value is kept
PageUrlKeepsLastValues ==
    pc = "returned" /\ call.op = "build_page_url" =>
        LET target_url == call.target_url
            built == ret.value
            last(key) == CHOOSE i \in 1..Len(target_url.query) :
                             /\ target_url.query[i].key = key
                             /\ \A j \in (i + 1)..Len(target_url.query) :
                                    target_url.query[j].key # key
        IN  /\ built.scheme = target_url.scheme
            /\ built.host = target_url.host
            /\ built.path = target_url.path
            /\ \A param \in QueryParams :
                   param.key # "page" =>
                       Occurrences(built.query, param) =
                           IF /\ Occurrences(target_url.query, param) > 0
                              /\ target_url.query[last(param.key)] = param
                           THEN 1 ELSE 0
            /\ Cardinality({i \in 1..Len(built.query) :
                               built.query[i].key = "page"}) = 1
            /\ Occurrences(built.query, QueryParam("page", str(call.page))) = 1
            /\ ret.again = build_page_url(target_url, call.then)

----------------------------------------------------------------------------
(* Properties of image-list discovery *)

\* the sources of the tags one selector matched
SourcesOf(tags) ==
    IF call.op = "olx.extract_images" THEN tags
    ELSE [i \in 1..Len(tags) |-> vinted_img_src(tags[i])]

\* the images one selector yields: the sources of its tags, each once
YieldOf(tags) == append_new(<<>>, SourcesOf(tags))

\* C32: in each variant the result of image-list discovery is what the first
\* selector that yields an image yields, with no image of a later selector
\* added; when no selector yields an image it is the one image of a meta
\* tag if there is one, else the empty list.
ImagesOfFirstYieldingSelector ==
    pc = "returned"
        /\ call.op \in {"olx.extract_images", "vinted.extract_html_images"} =>
        LET yielding == {i \in DOMAIN call.found : YieldOf(call.found[i]) # <<>>}
        IN  IF yielding # {}
            THEN ret.value = YieldOf(call.found[CHOOSE i \in yielding :
                                                    \A j \in yielding : i <= j])
            ELSE IF get_meta_content(call.meta) # NoneVal
            THEN ret.value = <<get_meta_content(call.meta)>>
            ELSE ret.value = <<>>

\* what the code keeps of C32: the Vinted variant, which has one selector,
\* does as C32 says
VintedImagesOfItsSelector ==
    pc = "returned" /\ call.op = "vinted.extract_html_images" =>
        LET yield == YieldOf(call.found[1])
        IN  IF yield # <<>> THEN ret.value = yield
            ELSE IF get_meta_content(call.meta) # NoneVal
            THEN ret.value = <<get_meta_content(call.meta)>>
            ELSE ret.value = <<>>

----------------------------------------------------------------------------
(* Properties of _extract_text *)

\* the selectors of the call whose first node has text
WithText == {i \in 1..Len(call.found) : call.found[i] \notin {NoNode, ""}}

\* C33: _extract_text returns the text of the first selector, in list
\* order, whose node has non-empty text; a selector whose node has empty
\* text does not end the search; the result is None exactly when no
\* selector has text.
ExtractTextFirstNonEmpty ==
    pc = "returned" /\ call.op = "olx.extract_text" =>
        /\ ret.value = NoneVal <=> WithText = {}
        /\ WithText # {} =>
               ret.value = call.found[CHOOSE i \in WithText :
                                          \A j \in WithText : i <= j]

\* a node of empty text came before the selector whose text is returned
ExtractTextFirstNonEmptyWitness ==
    /\ pc = "returned"
    /\ call.op = "olx.extract_text"
    /\ Len(call.found) >= 2
    /\ call.found[1] = ""
    /\ ret.value # NoneVal
    /\ ret.value = call.found[Len(call.found)]

----------------------------------------------------------------------------
(* Properties of the worker main starts *)

\* a cycle has just begun
CycleBegun == pc = "loading"

\* C34: an exception other than KeyboardInterrupt raised inside a cycle is
\* caught and the loop goes on: unless it is interrupted, a worker that
\* main starts begins a new cycle again and again.
FailedCycleIsFollowed ==
    call.op = "run_platform_scraper" =>
        []<>CycleBegun \/ <>[](pc = "interrupted")

----------------------------------------------------------------------------
(* Properties of the notification loop and the database update *)

\* C35: a send that raises for one record does not keep the other records of
\* the batch from being handed to the Messenger; the database update stores
\* the url of every record of the batch, of those whose send raised too; so
\* a url handed over in an earlier cycle, whether its send raised or not, is
\* stored and is in no later batch.
FailedSendIsStored ==
    /\ [](pc = "commit" =>
              \A u \in BatchUrls(batch) : cycle \in handed[u])
    /\ [][pc = "commit" /\ pc' = "idle" =>
              \A u \in BatchUrls(batch) : url_exists(ads', u)]_vars
    /\ [](\A u \in URLS :
              (\E c \in handed[u] : c < cycle) =>
                  url_exists(ads, u) /\ u \notin BatchUrls(batch))

----------------------------------------------------------------------------
(* Properties of the listings that do not hydrate *)

\* C36: the url of a candidate whose hydration fails is not stored by the
\* worker: url_exists stays false for it, it is handed to no notification,
\* and the discovery of every cycle that meets it takes it as new again.
FailedHydrationStaysNew ==
    \A u \in call.broken :
        /\ ~url_exists(ads, u)
        /\ handed[u] = {}
        /\ pc = "details" => \E i \in 1..Len(jobs) : jobs[i].url = u

\* the second cycle meets a listing whose hydration failed in the first,
\* next to one the first cycle stored
FailedHydrationStaysNewWitness ==
    /\ cycle = 2
    /\ pc = "details"
    /\ Len(jobs) = 1
    /\ jobs[1].url \in call.broken
    /\ \E v \in Range(site.results) : handed[v] = {1} /\ url_exists(ads, v)

----------------------------------------------------------------------------
(* Properties of the item-page fetches *)

\* C37: collect_listings fetches no item page for an item whose url is
\* known, nor for an item that lacks a required field; the item pages
\* fetched are those of the items emitted as candidates, one fetch each.
EnrichmentOnlyForCandidates ==
    pc = "returned" /\ call.op = "vinted.page" =>
        /\ \A i \in 1..Len(ret.html_fetches) :
               /\ ~url_exists(ads, ret.html_fetches[i])
               /\ \E j \in 1..Len(call.items) :
                      /\ call.items[j] # Skipped
                      /\ VintedItem(call.items[j]).url = ret.html_fetches[i]
        /\ ret.html_fetches
               = [i \in 1..Len(ret.collected) |-> ret.collected[i].url]

\* a page of a known item and a new item: one item page was fetched, that
\* of the new item
EnrichmentOnlyForCandidatesWitness ==
    /\ pc = "returned"
    /\ call.op = "vinted.page"
    /\ Len(call.items) = 2
    /\ ElementKnown(ads, call.items[1])
    /\ ret.html_fetches = <<call.items[2]>>

----------------------------------------------------------------------------
(* Properties of the start of a worker *)

\* C38: the worker main starts for olx constructs its ScraperOrchestrator
\* with the default scrapers without an exception, finds the scraper named
\* olx among them and reaches its cycle loop; a ScraperOrchestrator
\* constructed elsewhere without scrapers is constructed without an
\* exception too.
DefaultOrchestratorStarts ==
    /\ pc # "start" /\ call.op = "run_platform_scraper"
           /\ call.platform_name = OlxName =>
           pc = "idle" /\ ret.scrapers = <<OlxName>>
    /\ pc = "returned" /\ call.op = "ScraperOrchestrator"
           /\ ~call.scrapers.given =>
           ret.op = "return" /\ ret.scrapers # <<>>

\* what the code does: without a scrapers argument the constructor raises
\* and no worker reaches its loop; with one it takes the scrapers given
OnlyGivenScrapersStart ==
    /\ pc # "start" /\ call.op = "run_platform_scraper" => pc = "crashed"
    /\ pc = "returned" /\ call.op = "ScraperOrchestrator" =>
           IF ~call.scrapers.given THEN ret.op = "raised"
           ELSE ret.op = "return" /\ ret.scrapers = call.scrapers.list

----------------------------------------------------------------------------
(* Properties of the targets resolved to the OLX scraper *)

\* C39: a target that OlxScraper.supports accepts, its host in another
\* letter case than the entry of supported_domains included, is not refused
\* by OlxScraper.collect_listings with the Bad URL ValueError: no target is
\* resolved to the OLX scraper and then refused by it.
SupportedTargetIsAccepted ==
    \A i \in DOMAIN threads :
        threads[i].done /\ threads[i].by = OlxName =>
            /\ supports(OlxName, threads[i].host)
            /\ ~collect_listings(OlxName, ads, threads[i].host,
                                 threads[i].items).value_error

\* what the code keeps of C39: a target resolved to the OLX scraper is
\* accepted when its host is written as the entry of supported_domains is
SupportedTargetIsAcceptedInLowerCase ==
    \A i \in DOMAIN threads :
        threads[i].done /\ threads[i].by = OlxName =>
            /\ supports(OlxName, threads[i].host)
            /\ threads[i].host = lower(threads[i].host) =>
                   ~collect_listings(OlxName, ads, threads[i].host,
                                     threads[i].items).value_error

----------------------------------------------------------------------------
(* Properties of the loop of the earlier entry point *)

\* When the database update of a target ends, every new url of the target
\* is stored, whether get_ad_data gave a record for it or not.
LegacyStoresEveryNewUrl ==
    [][pc = "legacy_commit" /\ pc' = "legacy_targets" =>
          \A i \in 1..Len(listings) : url_exists(ads', listings[i])]_vars

\* a url is stored that was handed to the Messenger in no cycle
LegacyStoredUnsent ==
    /\ pc = "legacy_targets"
    /\ \E u \in SomeUrls :
           /\ url_exists(ads, u)
           /\ ~(u \in storeAtStart)
           /\ handed[u] = {}
====
